---- MODULE Spec2Model ----
(***************************************************************************)
(* FlowStrategy core runtime: Pipeline (state machine and step algorithm), *)
(* EventRouter (priority tiers, deferred queue), EventHub (alert log) and  *)
(* PipelineExecutor (worker threads sweeping the attached pipelines).      *)
(*                                                                         *)
(* A worker thread is a record whose pc is its position in                 *)
(* PipelineExecutor._loop and, inside a step, in Pipeline.step.  Methods   *)
(* that run under Pipeline._lock are one action each; step() takes no lock *)
(* and is split at the points where another thread can be observed.        *)
(***************************************************************************)
EXTENDS Integers, Sequences, FiniteSets, TLC

\* ----------------------------------------------------------------- bounds
MaxWorkers == 2
MaxFrameIndex == 2
MaxFrames == 2
MaxChain == 2
MaxSubs == 2
MaxQueue == 2
MaxTriggers == 3
MaxCleanups == 2
MaxOps == 2
MaxHubSubs == 3
MaxDepth == 2

\* ------------------------------------------------------ program constants
DEFERRED == 10
IMMEDIATE == 20
INTERRUPT == 30
CRITICAL == 40

EventPriority == {DEFERRED, IMMEDIATE, INTERRUPT, CRITICAL}
PipelineState == {"IDLE", "RUNNING", "PAUSED", "TERMINATED"}
PipelineMode == {"SINGLE", "LOOP", "CONDITIONAL"}
EventRule == {"NORMAL", "SILENT", "DROP"}

\* ------------------------------------------------------------- universes
Pipes == {"p1", "p2"}
Strats == {"s1", "s2", "s3"}
\* A topic is a class (it has __name__) or a str / Enum member (it has none).
Topics == {"Type", "str"}
\* Subscriber callbacks: one that returns and one that raises.
Handlers == {"h_ok", "h_raise"}
\* A callback that publishes a DEFERRED event on the router it is called by.
PublishingHandlers == {"h_pub"}
SubscribingHandlers == {"h_sub"}
\* Component classes (the tags of a Frame) and component instances: two of
\* class A, one of class B.
Tags == {"A", "B"}
Components == {"a1", "a2", "b1"}
\* What dict.get returns for a key the dict does not hold.
Absent == "absent"
Workers == 1..MaxWorkers
\* current_data before the first strategy has produced a frame; frames are
\* numbered from 1 in the order they are created.
None == 0

VARIABLES
    mode,               \* Pipeline._mode
    state,              \* Pipeline._state
    trigger_event,      \* Pipeline._trigger_event (is_set)
    frame_interrupted,  \* Pipeline._frame_interrupted
    strategies,         \* Pipeline._strategies (the current list object's value)
    frame_index,        \* PipelineContext._frame_index
    last_time,          \* TRUE iff the attribute Pipeline._last_time is bound
    subscribers,        \* EventRouter._subscribers
    deferred_queue,     \* EventRouter._deferred_queue
    event_policies,     \* EventRouter._event_policies (absent = NORMAL)
    log_info,           \* EventRouter._log_policy.is_allowed(INFO)
    released,           \* the Frames whose _released flag is set
    next_fid,           \* frames created so far
    hub_log,            \* payloads published on the EventHub, in order
    running,            \* PipelineExecutor._running
    pipelines,          \* PipelineExecutor._pipelines
    threads,            \* the worker threads PipelineExecutor.start() created
    last_call,          \* the last lifecycle call made on a TERMINATED pipeline
    cleanups,           \* per pipeline and strategy: the cleanup() calls made
                        \* on the strategy, counted up to MaxCleanups
    cleaning,           \* the pipelines whose stop() has set TERMINATED and holds
                        \* the lock, its cleanup() not yet run
    components,         \* Frame._components of each frame: tag -> component
    releasing,          \* per thread: the release() call it is in, if any
    history,            \* the add_component/remove_component calls made, in order
    last_op,            \* the last Frame call that returned, and what it returned
    hub_subscribers,    \* EventHub._subscribers: topic -> the callbacks, each with
                        \* the rank of the subscribe() call that appended it
    hub_lock,           \* the thread inside a "with self._lock" of the hub, or None
    hub_threads,        \* per thread: the EventHub call it is in, if any
    hub_next,           \* subscribe() calls completed on the hub
    tally               \* per pipeline: the trigger() calls that set the flag (all,
                        \* pending, merged by the last step) and the walks begun

pipeVars == <<mode, state, trigger_event, frame_interrupted, strategies, frame_index, last_time>>
routerVars == <<subscribers, deferred_queue, event_policies, log_info>>
frameVars == <<released, next_fid>>
ecsVars == <<components, releasing, history, last_op>>
execVars == <<running, pipelines>>
hubVars == <<hub_subscribers, hub_lock, hub_threads, hub_next>>
vars == <<pipeVars, routerVars, frameVars, hub_log, execVars, threads, last_call,
          cleanups, cleaning, tally, ecsVars, hubVars>>

\* ---------------------------------------------------------------- helpers
Prefix(s, t) ==
    /\ Len(s) <= Len(t)
    /\ \A k \in 1..Len(s) : s[k] = t[k]

Range(s) == {s[k] : k \in 1..Len(s)}

Last(s) ==
    s[Len(s)]

\* self._lock is held by a thread that is inside stop(), between the
\* assignment of TERMINATED and the end of cleanup(): the calls that take
\* the lock (start, pause, resume, stop, the structural edits) wait.
LockFree(p) ==
    p \notin cleaning

\* The last lifecycle call that found its pipeline TERMINATED.
Call(op, p) ==
    IF state[p] = "TERMINATED" THEN [op |-> op, pipe |-> p] ELSE last_call

\* A thread that start() has not created yet.
Unborn ==
    [pc |-> "unborn", current_pipelines |-> <<>>, i |-> 0,
     pipelines_to_remove |-> <<>>, any_work_done |-> FALSE,
     pipe |-> "p1", current_chain |-> <<>>, alias |-> FALSE, snapshot |-> <<>>,
     pos |-> 0, strategy |-> "s1", current_data |-> None, did_work |-> FALSE,
     early |-> FALSE, result |-> "none", ran |-> <<>>, calls |-> <<>>,
     after_raise |-> <<>>, index_at_call |-> 0, passed |-> FALSE, flush |-> <<>>]

\* The thread once step() has returned to _loop: the locals of the call are
\* gone; what stays is the result and whether the walk ended on a raise.
NoStep(t) ==
    [t EXCEPT !.current_chain = <<>>, !.alias = FALSE, !.snapshot = <<>>,
              !.pos = 0, !.strategy = "s1", !.current_data = None,
              !.did_work = FALSE, !.early = FALSE, !.ran = <<>>, !.calls = <<>>,
              !.index_at_call = 0, !.passed = FALSE, !.flush = <<>>,
              !.after_raise = IF t.ran # <<>> /\ t.ran[Len(t.ran)].kind = "raise"
                              THEN <<t.ran[Len(t.ran)]>> ELSE <<>>]

InStep == {"walk", "exec", "finally"}

\* ------------------------------------------------------- Pipeline lifecycle
\* Pipeline.cleanup clears the list object in place (pipeline.py 368): a step
\* that iterates this very object (alias) finds it empty at its next fetch.
ClearAliased(p, thr) ==
    [w \in Workers |->
        IF thr[w].alias /\ thr[w].pipe = p
        THEN [thr[w] EXCEPT !.current_chain = <<>>]
        ELSE thr[w]]

\* A structural edit binds a new list to _strategies: the list a step took
\* before is no longer the pipeline's and is never touched again.
Unalias(p, thr) ==
    [w \in Workers |->
        IF thr[w].pipe = p THEN [thr[w] EXCEPT !.alias = FALSE] ELSE thr[w]]

StartStateUnguarded(p) ==
    "RUNNING"

StartState(p) ==
    IF state[p] = "TERMINATED" THEN state[p] ELSE "RUNNING"

Start(p) ==
    /\ LockFree(p)
    /\ last_call' = Call("start", p)
    /\ state' = [state EXCEPT ![p] = StartState(p)]
    /\ trigger_event' =
         [trigger_event EXCEPT ![p] =
             IF state[p] # "TERMINATED" /\ mode[p] = "CONDITIONAL" THEN FALSE ELSE @]
    /\ UNCHANGED <<mode, frame_interrupted, strategies, frame_index, last_time>>
    /\ UNCHANGED <<routerVars, frameVars, hub_log, execVars, threads, tally, cleanups, ecsVars, cleaning, hubVars>>

Trigger(p) ==
    /\ mode[p] = "CONDITIONAL" => tally[p].triggers < MaxTriggers
    /\ last_call' = Call("trigger", p)
    /\ trigger_event' =
         [trigger_event EXCEPT ![p] = IF mode[p] = "CONDITIONAL" THEN TRUE ELSE @]
    /\ tally' = [tally EXCEPT
                     ![p].triggers = IF mode[p] = "CONDITIONAL" THEN @ + 1 ELSE @,
                     ![p].pending = IF mode[p] = "CONDITIONAL" THEN @ + 1 ELSE @]
    /\ UNCHANGED <<mode, state, frame_interrupted, strategies, frame_index, last_time>>
    /\ UNCHANGED <<routerVars, frameVars, hub_log, execVars, threads, cleanups, ecsVars, cleaning, hubVars>>

\* pause() that does not look at the state.
PauseStateUnguarded(p) ==
    "PAUSED"

\* The state pause() leaves (pipeline.py 113-115).
PauseState(p) ==
    IF state[p] = "RUNNING" THEN "PAUSED" ELSE state[p]

\* The state resume() leaves (pipeline.py 120-122).
ResumeState(p) ==
    IF state[p] = "PAUSED" THEN "RUNNING" ELSE state[p]

Pause(p) ==
    /\ LockFree(p)
    /\ last_call' = Call("pause", p)
    /\ state' = [state EXCEPT ![p] = PauseState(p)]
    /\ UNCHANGED <<mode, trigger_event, frame_interrupted, strategies, frame_index, last_time>>
    /\ UNCHANGED <<routerVars, frameVars, hub_log, execVars, threads, tally, cleanups, ecsVars, cleaning, hubVars>>

Resume(p) ==
    /\ LockFree(p)
    /\ last_call' = Call("resume", p)
    /\ state' = [state EXCEPT ![p] = ResumeState(p)]
    /\ UNCHANGED <<mode, trigger_event, frame_interrupted, strategies, frame_index, last_time>>
    /\ UNCHANGED <<routerVars, frameVars, hub_log, execVars, threads, tally, cleanups, ecsVars, cleaning, hubVars>>

\* The cleanup() calls counted for a strategy after k more of them.
Bump(n, k) ==
    IF n + k > MaxCleanups THEN MaxCleanups ELSE n + k

Occurrences(chain, s) ==
    Cardinality({k \in 1..Len(chain) : chain[k] = s})

\* The for loop of cleanup() (pipeline.py 363-367): one cleanup() call for
\* each element of the chain; what a strategy's cleanup raises is caught.
CleanedAll(p) ==
    [s \in Strats |-> Bump(cleanups[p][s], Occurrences(strategies[p], s))]

\* cleanup() that leaves the list as it is.
ChainKept(chain) ==
    chain

\* self._strategies.clear() (pipeline.py 368).
ChainCleared(chain) ==
    <<>>

\* stop() called from another thread, up to the call of cleanup() (pipeline.py
\* 125-130): the state is TERMINATED from here on, and the walk of a step,
\* which takes no lock, can see it before the chain is cleared.
Stop(p) ==
    /\ LockFree(p)
    /\ last_call' = Call("stop", p)
    /\ IF state[p] # "TERMINATED"
       THEN /\ state' = [state EXCEPT ![p] = "TERMINATED"]
            /\ cleaning' = cleaning \cup {p}
       ELSE UNCHANGED <<state, cleaning>>
    /\ UNCHANGED <<cleanups, strategies, frame_index, threads>>
    /\ UNCHANGED <<mode, trigger_event, frame_interrupted, last_time>>
    /\ UNCHANGED <<routerVars, frameVars, hub_log, execVars, tally, ecsVars, hubVars>>

\* The cleanup() that stop() goes on with (131, 356-372): every strategy's
\* cleanup, the list cleared in place, then PipelineContext.clear()
\* (frame_index back to 0); the lock is given back.
StopCleanup(p) ==
    /\ p \in cleaning
    /\ cleaning' = cleaning \ {p}
    /\ cleanups' = [cleanups EXCEPT ![p] = CleanedAll(p)]
    /\ strategies' = [strategies EXCEPT ![p] = ChainCleared(@)]
    /\ frame_index' = [frame_index EXCEPT ![p] = 0]
    /\ threads' = ClearAliased(p, threads)
    /\ UNCHANGED <<mode, state, trigger_event, frame_interrupted, last_time>>
    /\ UNCHANGED <<routerVars, frameVars, hub_log, execVars, last_call, tally, ecsVars, hubVars>>

\* Pipeline.__init__ binds no _last_time and step() reads it before it
\* writes it (pipeline.py 160, 164): a step can pass that line only after
\* the embedding code has assigned the attribute on the instance.
BindLastTime(p) ==
    /\ ~last_time[p]
    /\ last_time' = [last_time EXCEPT ![p] = TRUE]
    /\ UNCHANGED <<mode, state, trigger_event, frame_interrupted, strategies, frame_index>>
    /\ UNCHANGED <<routerVars, frameVars, hub_log, execVars, threads, last_call, tally, cleanups, ecsVars, cleaning, hubVars>>

\* --------------------------------------------------------------- EventRouter
HasName(t) ==
    t = "Type"

\* The router state one publish or flush works on: the deferred queue, the
\* subscriber and policy tables, the callbacks invoked (with the priority
\* the event was published at), the error raised to the caller and the
\* frame interrupt requested; frame and by make the data of the events
\* published; dispatched and enq record what a flush dispatched and what
\* callbacks enqueued meanwhile.
RouterRun(p) ==
    [queue |-> deferred_queue[p], subs |-> subscribers[p],
     policy |-> event_policies[p], calls |-> <<>>,
     raised |-> "none", interrupt |-> FALSE,
     frame |-> frame_index[p], by |-> "none",
     dispatched |-> <<>>, enq |-> <<>>]

\* The event a callback of kind h_pub publishes: a DEFERRED event on the
\* class topic (router.py 196-198, unless the topic's policy is DROP).
Echo(st) ==
    [topic |-> "Type", priority |-> DEFERRED, data |-> <<st.frame, "h_pub">>]

\* What calling callback h on an event of topic t does to the router: h_pub
\* publishes while the queue holds fewer than MaxQueue events; h_sub calls
\* subscribe(t, h_ok) (router.py 156-157, an append to the list of t) while
\* that list holds fewer than MaxSubs callbacks; the other callbacks leave
\* the router as it is.
Called(h, t, st) ==
    CASE h = "h_pub" /\ st.policy["Type"] # "DROP" /\ Len(st.queue) < MaxQueue
           -> [st EXCEPT !.queue = Append(@, Echo(st)), !.enq = Append(@, Echo(st))]
      [] h = "h_sub" /\ Len(st.subs[t]) < MaxSubs
           -> [st EXCEPT !.subs[t] = Append(@, "h_ok")]
      [] OTHER -> st

\* The loop of _dispatch_now (router.py 207-211).  The except clause builds
\* its message from event_type.__name__, which a str or Enum topic lacks:
\* there the handler's error is replaced by an AttributeError that leaves
\* the loop.
RECURSIVE Callbacks(_, _, _, _)
Callbacks(t, pri, k, st) ==
    IF k > Len(st.subs[t]) THEN st
    ELSE LET h == st.subs[t][k]
             st1 == [Called(h, t, st) EXCEPT
                        !.calls = Append(@, [handler |-> h, topic |-> t, priority |-> pri])]
         IN  IF h = "h_raise" /\ ~HasName(t)
             THEN [st1 EXCEPT !.raised = "AttributeError"]
             ELSE Callbacks(t, pri, k + 1, st1)

\* trace_dispatch (router.py 87-101): with INFO allowed both log lines are
\* built from event_type.__name__ before any callback runs.
DispatchNow(p, t, pri, st) ==
    IF log_info[p] /\ ~HasName(t)
    THEN [st EXCEPT !.raised = "AttributeError"]
    ELSE Callbacks(t, pri, 1, st)

\* The routing of publish with its last branch (196-198) replaced by a
\* dispatch: a DEFERRED event is dispatched at once like an IMMEDIATE one.
RouteAllNow(p, t, pri, st) ==
    IF pri = CRITICAL
    THEN [st EXCEPT !.raised = "Exception"]
    ELSE LET d == DispatchNow(p, t, pri, st)
         IN  IF d.raised = "none" /\ pri = INTERRUPT
             THEN [d EXCEPT !.interrupt = TRUE]
             ELSE d

\* The priority routing of publish (router.py 175-198) without its first
\* branch: a CRITICAL event is dispatched like any event >= IMMEDIATE.
RouteNoEscalation(p, t, pri, st) ==
    IF pri >= IMMEDIATE
    THEN LET d == DispatchNow(p, t, pri, st)
         IN  IF d.raised = "none" /\ pri = INTERRUPT
             THEN [d EXCEPT !.interrupt = TRUE]
             ELSE d
    ELSE [st EXCEPT !.queue = Append(@, [topic |-> t, priority |-> pri,
                                         data |-> <<st.frame, st.by>>])]

Route(p, t, pri, st) ==
    IF pri = CRITICAL
    THEN [st EXCEPT !.raised = "Exception"]
    ELSE IF pri >= IMMEDIATE
         THEN LET d == DispatchNow(p, t, pri, st)
              IN  IF d.raised = "none" /\ pri = INTERRUPT
                  THEN [d EXCEPT !.interrupt = TRUE]
                  ELSE d
         ELSE [st EXCEPT !.queue = Append(@, [topic |-> t, priority |-> pri,
                                         data |-> <<st.frame, st.by>>])]

\* publish without the policy lookup of its decorator: a DROP topic is
\* routed like any other.
PublishIgnoringPolicy(p, t, pri, st) ==
    Route(p, t, pri, st)

\* trace_publish with is_mute (SILENT or DROP) where it reads is_dropped: a
\* SILENT topic is dropped too.
PublishUnderMute(rule, p, t, pri, st) ==
    IF rule \in {"DROP", "SILENT"} THEN st ELSE Route(p, t, pri, st)

\* trace_publish for a topic whose policy has the given rule (router.py
\* 26-78; policies.py 60-66): DROP returns before publish is entered;
\* SILENT enters it at once, NORMAL after the log line.
PublishUnder(rule, p, t, pri, st) ==
    IF rule = "DROP" THEN st ELSE Route(p, t, pri, st)

\* The policy is looked up in _event_policies (router.py 31-33).
Publish(p, t, pri, st) ==
    PublishUnder(event_policies[p][t], p, t, pri, st)

\* SysLogger._should_log(source, INFO) with the router as source
\* (logger.py 82-93): the router is an ILoggable, so its own log policy
\* decides.
ShouldLog(p) ==
    log_info[p]

\* SysLogger.info(self, ...) writes the record only if _should_log agrees
\* (logger.py 63-68).
SysLoggerInfo(p) ==
    ShouldLog(p)

\* The condition under which trace_publish calls SysLogger.info
\* (router.py 35-50): the topic is neither dropped nor mute, and
\* should_log or is_high_priority.
TracePublishLogs(p, t, pri) ==
    /\ event_policies[p][t] = "NORMAL"
    /\ log_info[p] \/ pri >= INTERRUPT

\* A "[PUB]" record is written for this publish.
PublishLogged(p, t, pri) ==
    TracePublishLogs(p, t, pri) /\ SysLoggerInfo(p)

\* The loop of process_deferred (router.py 221-224): count events are
\* popped from the left and dispatched; an error leaves the loop.
RECURSIVE Drain(_, _, _)
Drain(p, count, st) ==
    IF count = 0 \/ st.raised # "none" THEN st
    ELSE LET e == Head(st.queue)
             d == DispatchNow(p, e.topic, e.priority, [st EXCEPT !.queue = Tail(@)])
         IN  Drain(p, count - 1,
                   IF d.raised = "none"
                   THEN [d EXCEPT !.dispatched = Append(@, e)] ELSE d)

ProcessDeferred(p, st) ==
    Drain(p, Len(st.queue), st)

Subscribe(p, t, h) ==
    /\ Len(subscribers[p][t]) < MaxSubs
    /\ subscribers' = [subscribers EXCEPT ![p][t] = Append(@, h)]
    /\ UNCHANGED <<deferred_queue, event_policies, log_info>>
    /\ UNCHANGED <<pipeVars, frameVars, hub_log, execVars, threads, last_call, tally, cleanups, ecsVars, cleaning, hubVars>>

\* EventRouter.set_log_policy: only whether INFO is allowed matters here.
SetLogPolicy(p, info) ==
    /\ log_info[p] # info
    /\ log_info' = [log_info EXCEPT ![p] = info]
    /\ UNCHANGED <<subscribers, deferred_queue, event_policies>>
    /\ UNCHANGED <<pipeVars, frameVars, hub_log, execVars, threads, last_call, tally, cleanups, ecsVars, cleaning, hubVars>>

\* ------------------------------------------------------------- strategies
\* What one IStrategy.execute call does: it may publish once on the
\* pipeline's router (and catch or not what publish raises), then it
\* returns (success, frame) or raises.  "same" returns the frame it was
\* given, "new" a frame it created, "none" returns None.
Quiet(ret, out) ==
    [pub |-> FALSE, topic |-> "Type", priority |-> DEFERRED, catch |-> FALSE,
     ret |-> ret, out |-> out]

Publishing(t, pri, catch, ret) ==
    [pub |-> TRUE, topic |-> t, priority |-> pri, catch |-> catch,
     ret |-> ret, out |-> "same"]

PlainBehaviours ==
    {Quiet(r, "same") : r \in {"ok", "fail", "raise"}}

FrameBehaviours ==
    {Quiet(r, o) : r \in {"ok", "fail"}, o \in {"same", "new", "none"}}
        \cup {Quiet("raise", "same")}

\* Synchronous publishes on either kind of topic, deferred ones on the
\* class topic; a strategy may catch what an INTERRUPT publish raises.
PublishBehaviours ==
    {Publishing(t, pri, FALSE, "ok") : t \in Topics, pri \in EventPriority \ {DEFERRED}}
        \cup {Publishing("Type", DEFERRED, FALSE, "ok")}
        \cup {Publishing(t, INTERRUPT, TRUE, "ok") : t \in Topics}
        \cup {Quiet("ok", "same")}

\* Strategies that publish at DEFERRED priority on either topic, or at
\* IMMEDIATE priority on the class topic, or nothing.
DeferredBehaviours ==
    {Publishing(t, DEFERRED, FALSE, "ok") : t \in Topics}
        \cup {Publishing("Type", IMMEDIATE, FALSE, "ok"), Quiet("ok", "same")}

\* Strategies that create a frame, or pass on the frame they were given
\* and publish a DEFERRED event (on either kind of topic) or an INTERRUPT
\* event, or fail.
FlushBehaviours ==
    {Quiet("ok", "new"), Quiet("fail", "same")}
        \cup {Publishing(t, DEFERRED, FALSE, "ok") : t \in Topics}
        \cup {Publishing("Type", INTERRUPT, FALSE, "ok")}

CriticalBehaviours ==
    {Publishing("Type", CRITICAL, FALSE, "ok"), Quiet("ok", "same"), Quiet("raise", "same")}

Feasible(b, p) ==
    /\ b.out = "new" => next_fid < MaxFrames
    /\ (b.pub /\ b.priority = DEFERRED) => Len(deferred_queue[p]) < MaxQueue

\* -------------------------------------------------------------------- Frame
FrameIds == 1..MaxFrames

\* type(component): the key add_component stores a component under.
TypeOf(c) ==
    IF c \in {"a1", "a2"} THEN "A" ELSE "B"

\* Frame.__init__ (frame.py 18-26): no component under any tag.
EmptyStore ==
    [tag \in Tags |-> Absent]

Idle ==
    [pc |-> "idle", frame |-> 1]

NoOp ==
    [op |-> "none", frame |-> 1, tag |-> "A", result |-> Absent, has |-> FALSE,
     raised |-> "none"]

Created(f) ==
    f <= next_fid

\* Frame._lock is held by a release() between its clear() and the
\* assignment of _released (frame.py 69-74).
Locked(f) ==
    \E w \in Workers : releasing[w].pc = "cleared" /\ releasing[w].frame = f

\* A release() that does not look at the flag.
NeverReleased(f) ==
    FALSE

\* "if self._released: return" (frame.py 66-67).
AlreadyReleased(f) ==
    f \in released

\* release() called on each of the frames, each call run to its end: a
\* frame whose flag is set keeps its store, the others are cleared.
Disposed(store, frames) ==
    [f \in FrameIds |->
        IF f \in frames /\ ~AlreadyReleased(f) THEN EmptyStore ELSE store[f]]

\* FrameFactory.create (frame_factory.py 18-25): the next id, a new Frame.
NewFrame ==
    /\ next_fid < MaxFrames
    /\ next_fid' = next_fid + 1
    /\ UNCHANGED <<released, ecsVars>>
    /\ UNCHANGED <<pipeVars, routerVars, hub_log, execVars, threads, last_call, cleanups, tally, cleaning, hubVars>>

\* add_component (28-36): the component is stored under its type, in place
\* of the one stored under that type before.
AddComponent(f, c) ==
    /\ Created(f)
    /\ ~Locked(f)
    /\ Len(history) < MaxOps
    /\ components' = [components EXCEPT ![f][TypeOf(c)] = c]
    /\ history' = Append(history, [op |-> "add", frame |-> f, tag |-> TypeOf(c),
                                   component |-> c])
    /\ last_op' = [NoOp EXCEPT !.op = "add", !.frame = f, !.tag = TypeOf(c)]
    /\ UNCHANGED <<releasing, frameVars>>
    /\ UNCHANGED <<pipeVars, routerVars, hub_log, execVars, threads, last_call, cleanups, tally, cleaning, hubVars>>

\* "del self._components[component_type]": KeyError when the key is missing.
DelItem(store, tag) ==
    IF store[tag] = Absent
    THEN [store |-> store, raised |-> "KeyError"]
    ELSE [store |-> [store EXCEPT ![tag] = Absent], raised |-> "none"]

\* remove_component without the membership test of line 59.
RemoveUnguarded(store, tag) ==
    DelItem(store, tag)

\* The body of remove_component (59-60).
Removed(store, tag) ==
    IF store[tag] # Absent THEN DelItem(store, tag)
    ELSE [store |-> store, raised |-> "none"]

RemoveComponent(f, tag) ==
    /\ Created(f)
    /\ ~Locked(f)
    /\ Len(history) < MaxOps
    /\ components' = [components EXCEPT ![f] = Removed(@, tag).store]
    /\ history' = Append(history, [op |-> "remove", frame |-> f, tag |-> tag,
                                   component |-> Absent])
    /\ last_op' = [NoOp EXCEPT !.op = "remove", !.frame = f, !.tag = tag,
                               !.raised = Removed(components[f], tag).raised]
    /\ UNCHANGED <<releasing, frameVars>>
    /\ UNCHANGED <<pipeVars, routerVars, hub_log, execVars, threads, last_call, cleanups, tally, cleaning, hubVars>>

\* get_component (38-46) and has_component (48-52): dict.get and "in", read
\* without the lock.
GetComponent(f, tag) ==
    /\ Created(f)
    /\ last_op' = [NoOp EXCEPT !.op = "get", !.frame = f, !.tag = tag,
                               !.result = components[f][tag]]
    /\ UNCHANGED <<components, releasing, history, frameVars>>
    /\ UNCHANGED <<pipeVars, routerVars, hub_log, execVars, threads, last_call, cleanups, tally, cleaning, hubVars>>

HasComponent(f, tag) ==
    /\ Created(f)
    /\ last_op' = [NoOp EXCEPT !.op = "has", !.frame = f, !.tag = tag,
                               !.has = components[f][tag] # Absent]
    /\ UNCHANGED <<components, releasing, history, frameVars>>
    /\ UNCHANGED <<pipeVars, routerVars, hub_log, execVars, threads, last_call, cleanups, tally, cleaning, hubVars>>

\* release() up to the with statement (62-69): the flag is read without
\* the lock; a call that finds it set returns at once.
ReleaseCall(w, f) ==
    /\ releasing[w].pc = "idle"
    /\ Created(f)
    /\ IF AlreadyReleased(f)
       THEN /\ last_op' = [NoOp EXCEPT !.op = "release", !.frame = f, !.result = "early"]
            /\ UNCHANGED releasing
       ELSE /\ releasing' = [releasing EXCEPT ![w] = [pc |-> "locking", frame |-> f]]
            /\ UNCHANGED last_op
    /\ UNCHANGED <<components, history, frameVars>>
    /\ UNCHANGED <<pipeVars, routerVars, hub_log, execVars, threads, last_call, cleanups, tally, cleaning, hubVars>>

\* The lock is taken and the dict cleared (69-73).
ReleaseClear(w) ==
    /\ releasing[w].pc = "locking"
    /\ ~Locked(releasing[w].frame)
    /\ components' = [components EXCEPT ![releasing[w].frame] = EmptyStore]
    /\ releasing' = [releasing EXCEPT ![w].pc = "cleared"]
    /\ UNCHANGED <<history, last_op, frameVars>>
    /\ UNCHANGED <<pipeVars, routerVars, hub_log, execVars, threads, last_call, cleanups, tally, cleaning, hubVars>>

\* The flag is set and the lock given back (74).
ReleaseDone(w) ==
    /\ releasing[w].pc = "cleared"
    /\ released' = released \cup {releasing[w].frame}
    /\ releasing' = [releasing EXCEPT ![w] = Idle]
    /\ last_op' = [NoOp EXCEPT !.op = "release", !.frame = releasing[w].frame,
                               !.result = "disposed"]
    /\ UNCHANGED <<components, history, next_fid>>
    /\ UNCHANGED <<pipeVars, routerVars, hub_log, execVars, threads, last_call, cleanups, tally, cleaning, hubVars>>

\* ---------------------------------------------------------- Pipeline.step
Truthy(frame) ==
    IF frame # None THEN {frame} ELSE {}

\* A step that does not look at the state (only the mode gate is left).
GatedByModeOnly(p) ==
    mode[p] = "CONDITIONAL" /\ ~trigger_event[p]

\* step lines 145-179 for thread t on pipeline p: the state gate, the mode
\* gate (which consumes the trigger), the timing prologue, then the context
\* update and the chain reference taken for the walk.
Gated(p) ==
    \/ state[p] # "RUNNING"
    \/ mode[p] = "CONDITIONAL" /\ ~trigger_event[p]

\* The mode gate without the clear() of line 154: a pending trigger stays
\* pending.
KeptTrigger(p) ==
    trigger_event[p]

\* The trigger flag once step() has gone through the gates (148-154).
ConsumedTrigger(p) ==
    IF mode[p] = "CONDITIONAL" /\ ~Gated(p) THEN FALSE ELSE trigger_event[p]

StepBegin(t, p) ==
    LET fresh == [t EXCEPT !.pipe = p, !.ran = <<>>, !.calls = <<>>, !.early = FALSE,
                           !.did_work = FALSE, !.current_data = None, !.pos = 1,
                           !.after_raise = IF t.pipe = p THEN @ ELSE <<>>,
                           !.index_at_call = frame_index[p], !.passed = ~Gated(p),
                           !.flush = <<>>]
    IN  IF Gated(p) THEN [fresh EXCEPT !.pc = "returned", !.result = "false"]
        ELSE IF ~last_time[p]
             THEN [fresh EXCEPT !.pc = "returned", !.result = "AttributeError"]
             ELSE [fresh EXCEPT !.pc = "walk", !.result = "none",
                                !.current_chain = strategies[p], !.alias = TRUE,
                                !.snapshot = strategies[p]]

ExecuteOk(t, out) ==
    [t EXCEPT !.current_data = out, !.did_work = TRUE, !.pc = "walk"]

ExecuteFailedContinues(t, out) ==
    [t EXCEPT !.current_data = out, !.pc = "walk"]

ExecuteFailed(t, out) ==
    [t EXCEPT !.current_data = out, !.pc = "finally"]

ExecuteRaisedContinues(t) ==
    [t EXCEPT !.pc = "walk"]

ExecuteRaised(t) ==
    [t EXCEPT !.pc = "finally"]

\* The frames the step releases right after the call (lines 205-221):
\* current_data is already the returned value when success is false, and
\* still the frame passed in when execute raised.
ReleasedAfter(t, kind, out) ==
    CASE kind = "fail" -> Truthy(out)
      [] kind = "raise" -> Truthy(t.current_data)
      [] OTHER -> {}

\* stop() as called from inside step (SINGLE) and by the executor, on a
\* thread whose steps the model follows: the state change and the cleanup
\* in one step, given the thread records to write. The caller waits for the
\* lock (LockFree).
StopEffects(p, thr) ==
    IF state[p] # "TERMINATED"
    THEN /\ state' = [state EXCEPT ![p] = "TERMINATED"]
         /\ cleanups' = [cleanups EXCEPT ![p] = CleanedAll(p)]
         /\ strategies' = [strategies EXCEPT ![p] = ChainCleared(@)]
         /\ frame_index' = [frame_index EXCEPT ![p] = 0]
         /\ threads' = ClearAliased(p, thr)
    ELSE /\ threads' = thr
         /\ UNCHANGED <<state, cleanups, strategies, frame_index>>

\* The head of the for loop (lines 181-197): fetch the next strategy of the
\* list being iterated, then the two circuit breakers.
Walk(w) ==
    LET t == threads[w]
        p == t.pipe
    IN  /\ t.pc = "walk"
        /\ IF t.pos > Len(t.current_chain)
           THEN /\ threads' = [threads EXCEPT ![w].pc = "finally"]
                /\ UNCHANGED <<released, components>>
           ELSE LET f == [t EXCEPT !.strategy = t.current_chain[t.pos], !.pos = @ + 1]
                IN  IF state[p] = "TERMINATED"
                    THEN /\ threads' = [threads EXCEPT ![w] =
                                           [f EXCEPT !.pc = "finally", !.early = TRUE]]
                         /\ released' = released \cup Truthy(t.current_data)
                         /\ components' = Disposed(components, Truthy(t.current_data))
                    ELSE /\ threads' = [threads EXCEPT ![w] =
                                           [f EXCEPT !.pc = IF frame_interrupted[p]
                                                            THEN "finally" ELSE "exec"]]
                         /\ UNCHANGED <<released, components>>
        /\ UNCHANGED <<pipeVars, routerVars, next_fid, hub_log, execVars, last_call, tally, cleanups>>
        /\ UNCHANGED <<releasing, history, last_op, cleaning, hubVars>>

\* strategy.execute(current_data) and the handling of its result (199-221).
Exec(w, B) ==
    LET t == threads[w]
        p == t.pipe
    IN  /\ t.pc = "exec"
        /\ \E b \in B :
             /\ Feasible(b, p)
             /\ LET st == IF b.pub
                          THEN Publish(p, b.topic, b.priority,
                                       [RouterRun(p) EXCEPT !.by = t.strategy])
                          ELSE RouterRun(p)
                    kind == IF st.raised # "none" /\ ~b.catch THEN "raise" ELSE b.ret
                    out == CASE kind = "raise" -> None
                             [] b.out = "same" -> t.current_data
                             [] b.out = "new" -> next_fid + 1
                             [] OTHER -> None
                    entry == [strategy |-> t.strategy, arg |-> t.current_data,
                              kind |-> kind, out |-> out,
                              pub |-> b.pub, topic |-> b.topic, priority |-> b.priority,
                              rule |-> event_policies[p][b.topic],
                              raised |-> st.raised,
                              called |-> [k \in 1..Len(st.calls) |-> st.calls[k].handler],
                              subs_at |-> subscribers[p][b.topic],
                              logged |-> b.pub /\ PublishLogged(p, b.topic, b.priority)]
                    t1 == [t EXCEPT !.ran = Append(@, entry), !.calls = @ \o st.calls]
                IN  /\ threads' = [threads EXCEPT ![w] =
                                      CASE kind = "ok" -> ExecuteOk(t1, out)
                                        [] kind = "fail" -> ExecuteFailed(t1, out)
                                        [] OTHER -> ExecuteRaised(t1)]
                    /\ released' = released \cup ReleasedAfter(t, kind, out)
                    /\ components' = Disposed(components, ReleasedAfter(t, kind, out))
                    /\ next_fid' = IF kind # "raise" /\ b.out = "new"
                                   THEN next_fid + 1 ELSE next_fid
                    /\ deferred_queue' = [deferred_queue EXCEPT ![p] = st.queue]
                    /\ subscribers' = [subscribers EXCEPT ![p] = st.subs]
                    /\ frame_interrupted' =
                           [frame_interrupted EXCEPT ![p] = @ \/ st.interrupt]
        /\ UNCHANGED <<mode, state, trigger_event, strategies, frame_index, last_time>>
        /\ UNCHANGED <<event_policies, log_info, hub_log, execVars, last_call, tally, cleanups>>
        /\ UNCHANGED <<releasing, history, last_op, cleaning, hubVars>>

\* The finally block with the release moved before the flush: no frame is
\* live when the callbacks run.
InFlightAfterRelease(t) ==
    {}

\* The frame that is in flight and not disposed when process_deferred is
\* called (line 229): the release of current_data comes after (235-237).
InFlight(t) ==
    Truthy(t.current_data) \ released

\* The finally block (226-246) and what follows it (248-252).  An error
\* raised by process_deferred leaves the block at once: the release, the
\* pacing and the SINGLE stop are skipped and the error leaves step().  A
\* pending "return True" (early) returns after the block, before line 248.
Finally(w) ==
    LET t == threads[w]
        p == t.pipe
        st == ProcessDeferred(p, RouterRun(p))
        t1 == [t EXCEPT !.calls = @ \o st.calls, !.pc = "returned",
                        !.flush = <<[before |-> deferred_queue[p],
                                     dispatched |-> st.dispatched,
                                     enq |-> st.enq, after |-> st.queue,
                                     raised |-> st.raised,
                                     live |-> InFlight(t)]>>]
    IN  /\ t.pc = "finally"
        /\ deferred_queue' = [deferred_queue EXCEPT ![p] = st.queue]
        /\ subscribers' = [subscribers EXCEPT ![p] = st.subs]
        /\ IF st.raised # "none"
           THEN /\ threads' = [threads EXCEPT ![w] = [t1 EXCEPT !.result = st.raised]]
                /\ UNCHANGED <<released, components, state, cleanups, strategies, frame_index>>
           ELSE LET t2 == [t1 EXCEPT !.result = IF t.early \/ t.did_work
                                                THEN "true" ELSE "false"]
                IN  /\ released' = released \cup Truthy(t.current_data)
                    /\ components' = Disposed(components, Truthy(t.current_data))
                    /\ IF ~t.early /\ mode[p] = "SINGLE"
                       THEN /\ LockFree(p)
                            /\ StopEffects(p, [threads EXCEPT ![w] = t2])
                       ELSE /\ threads' = [threads EXCEPT ![w] = t2]
                            /\ UNCHANGED <<state, cleanups, strategies, frame_index>>
        /\ UNCHANGED <<mode, trigger_event, frame_interrupted, last_time>>
        /\ UNCHANGED <<event_policies, log_info, next_fid, hub_log, execVars, last_call, tally>>
        /\ UNCHANGED <<releasing, history, last_op, cleaning, hubVars>>

\* -------------------------------------------------------- PipelineExecutor
Raises == {"AttributeError", "Exception", "PipelineCriticalError"}

Free(w) ==
    threads[w].pc = "unborn"

\* start() (executor.py 78-84): a new thread, whatever became of the one a
\* previous start() created; n bounds the threads alive at once.
ExecutorStart(n) ==
    /\ ~running
    /\ \E w \in 1..n :
         /\ Free(w)
         /\ \A v \in Workers : v < w => ~Free(v)
         /\ threads' = [threads EXCEPT ![w].pc = "top"]
    /\ running' = TRUE
    /\ UNCHANGED <<pipeVars, routerVars, frameVars, hub_log, pipelines, last_call, tally, cleanups, ecsVars, cleaning, hubVars>>

\* stop() (86-94) clears the flag; the caller then waits in join(timeout).
ExecutorStop ==
    /\ running
    /\ running' = FALSE
    /\ UNCHANGED <<pipeVars, routerVars, frameVars, hub_log, pipelines, threads, last_call, tally, cleanups, ecsVars, cleaning, hubVars>>

\* The loop with "while True" for its head: the flag is never read.
LoopTopForever(w) ==
    LET t == threads[w]
    IN  /\ t.pc = "top"
        /\ threads' = [threads EXCEPT ![w] =
                          [t EXCEPT !.pc = "visit", !.current_pipelines = pipelines,
                                    !.i = 1, !.pipelines_to_remove = <<>>,
                                    !.any_work_done = FALSE]]
        /\ UNCHANGED <<pipeVars, routerVars, frameVars, hub_log, execVars, last_call, tally, cleanups, ecsVars, cleaning, hubVars>>

\* "while self._running" and the snapshot of the attached list (109-120).
LoopTop(w) ==
    LET t == threads[w]
    IN  /\ t.pc = "top"
        /\ threads' = [threads EXCEPT ![w] =
                          IF running
                          THEN [t EXCEPT !.pc = "visit", !.current_pipelines = pipelines,
                                         !.i = 1, !.pipelines_to_remove = <<>>,
                                         !.any_work_done = FALSE]
                          ELSE Unborn]
        /\ UNCHANGED <<pipeVars, routerVars, frameVars, hub_log, execVars, last_call, tally, cleanups, ecsVars, cleaning, hubVars>>

\* One iteration of "for pipe in current_pipelines" up to the call of
\* pipe.step(): the end of the sweep, or the check that detaches a
\* TERMINATED pipeline (executor.py 122-129).
Visit(w) ==
    LET t == threads[w]
    IN  /\ t.pc = "visit"
        /\ threads' = [threads EXCEPT ![w] =
              IF t.i > Len(t.current_pipelines)
              THEN [t EXCEPT !.pc = "gc"]
              ELSE IF state[t.current_pipelines[t.i]] = "TERMINATED"
                   THEN [t EXCEPT !.pipelines_to_remove =
                                      Append(@, t.current_pipelines[t.i]),
                                  !.i = @ + 1]
                   ELSE [t EXCEPT !.pc = "call"]]
        /\ UNCHANGED <<pipeVars, routerVars, frameVars, hub_log, execVars, last_call, tally, cleanups, ecsVars, cleaning, hubVars>>

NextFrameIndexAlways(p, walks) ==
    frame_index[p] + 1

\* An index that advances only when the pipeline holds a strategy to run.
NextFrameIndexIfChain(p, walks) ==
    IF walks /\ strategies[p] # <<>> THEN frame_index[p] + 1 ELSE frame_index[p]

\* context._frame_index after the prologue of a step (pipeline.py 145-168).
NextFrameIndex(p, walks) ==
    IF walks THEN frame_index[p] + 1 ELSE frame_index[p]

\* Whether a step counts in the tally of executed steps.
Tallied(p) ==
    mode[p] # "LOOP"

\* The call pipe.step() (executor.py 131) and the prologue of the step
\* (pipeline.py 145-179), which takes no lock.
Step(w) ==
    LET t == threads[w]
        p == t.current_pipelines[t.i]
        b == StepBegin(t, p)
    IN  /\ t.pc = "call"
        /\ b.pc = "walk" => frame_index[p] < MaxFrameIndex
        /\ threads' = [threads EXCEPT ![w] = b]
        /\ trigger_event' = [trigger_event EXCEPT ![p] = ConsumedTrigger(p)]
        /\ frame_interrupted' = [frame_interrupted EXCEPT ![p] =
                                    IF b.pc = "walk" THEN FALSE ELSE @]
        /\ frame_index' = [frame_index EXCEPT ![p] = NextFrameIndex(p, b.pc = "walk")]
        /\ tally' = [tally EXCEPT
                         ![p].executed = IF b.pc = "walk" /\ Tallied(p) THEN @ + 1 ELSE @,
                         ![p].merged = IF Gated(p) THEN @ ELSE tally[p].pending,
                         ![p].pending = IF Gated(p) THEN @ ELSE 0]
        /\ UNCHANGED <<mode, state, strategies, last_time>>
        /\ UNCHANGED <<routerVars, frameVars, hub_log, execVars, last_call, cleanups, ecsVars, cleaning, hubVars>>

\* What the try statement around pipe.step() leaves of the thread (129-146).
AfterStepUncaught(t) ==
    IF t.result \in Raises
    THEN Unborn
    ELSE [NoStep(t) EXCEPT !.pc = "visit", !.i = @ + 1,
                           !.any_work_done = @ \/ t.result = "true"]

AfterStep(t) ==
    [NoStep(t) EXCEPT !.pc = "visit", !.i = @ + 1,
                      !.any_work_done = @ \/ t.result = "true"]

Alert(p) ==
    [topic |-> "SYSTEM_ALERT", level |-> "CRITICAL", source |-> p]

EscalatesAny(result) ==
    result \in Raises

\* The except clause that takes the error of a step (executor.py 136, 144).
Escalates(result) ==
    result = "PipelineCriticalError"

Returned(w) ==
    LET t == threads[w]
        p == t.pipe
    IN  /\ t.pc = "returned"
        /\ IF Escalates(t.result)
           THEN /\ hub_log' = Append(hub_log, Alert(p))
                /\ LockFree(p)
                /\ StopEffects(p, [threads EXCEPT ![w] = AfterStep(t)])
           ELSE /\ threads' = [threads EXCEPT ![w] = AfterStep(t)]
                /\ UNCHANGED <<hub_log, state, cleanups, strategies, frame_index>>
        /\ UNCHANGED <<mode, trigger_event, frame_interrupted, last_time>>
        /\ UNCHANGED <<routerVars, frameVars, execVars, last_call, tally, ecsVars, cleaning, hubVars>>

\* Removal of the pipelines found TERMINATED, then the idle sleep (148-166).
RemainingAll(attached, dead) ==
    attached

\* The attached list once the pipelines found TERMINATED are removed.
Remaining(attached, dead) ==
    SelectSeq(attached, LAMBDA q : q \notin Range(dead))

GC(w) ==
    LET t == threads[w]
    IN  /\ t.pc = "gc"
        /\ pipelines' = Remaining(pipelines, t.pipelines_to_remove)
        /\ threads' = [threads EXCEPT ![w] =
                          [t EXCEPT !.pc = "top", !.current_pipelines = <<>>, !.i = 0,
                                    !.pipelines_to_remove = <<>>]]
        /\ UNCHANGED <<pipeVars, routerVars, frameVars, hub_log, running, last_call, tally, cleanups, ecsVars, cleaning, hubVars>>

\* ------------------------------------------------------- structural edits
InsertAt(chain, index, s) ==
    SubSeq(chain, 1, index) \o <<s>> \o SubSeq(chain, index + 1, Len(chain))

RECURSIVE RemoveFirst(_, _)
RemoveFirst(chain, s) ==
    IF chain = <<>> THEN <<>>
    ELSE IF Head(chain) = s THEN Tail(chain)
         ELSE <<Head(chain)>> \o RemoveFirst(Tail(chain), s)

\* An edit that changed the list object in place: a step iterating that
\* object would see the edited list.
EditedInPlace(p, new) ==
    [w \in Workers |->
        IF threads[w].alias /\ threads[w].pipe = p
        THEN [threads[w] EXCEPT !.current_chain = new]
        ELSE threads[w]]

\* Copy, modify, replace (pipeline.py 283-285, 291-293, 307-309).
Rebound(p, new) ==
    Unalias(p, threads)

AddStrategy(p, s) ==
    /\ LockFree(p)
    /\ Len(strategies[p]) < MaxChain
    /\ strategies' = [strategies EXCEPT ![p] = Append(@, s)]
    /\ threads' = Rebound(p, strategies'[p])
    /\ UNCHANGED <<mode, state, trigger_event, frame_interrupted, frame_index, last_time>>
    /\ UNCHANGED <<routerVars, frameVars, hub_log, execVars, last_call, tally, cleanups, ecsVars, cleaning, hubVars>>

InsertStrategy(p, index, s) ==
    /\ LockFree(p)
    /\ Len(strategies[p]) < MaxChain
    /\ index \in 0..Len(strategies[p])
    /\ strategies' = [strategies EXCEPT ![p] = InsertAt(@, index, s)]
    /\ threads' = Rebound(p, strategies'[p])
    /\ UNCHANGED <<mode, state, trigger_event, frame_interrupted, frame_index, last_time>>
    /\ UNCHANGED <<routerVars, frameVars, hub_log, execVars, last_call, tally, cleanups, ecsVars, cleaning, hubVars>>

\* remove_strategy (296-317): the removed strategy's cleanup() is called
\* once the new list is bound.
RemoveStrategy(p, s) ==
    /\ LockFree(p)
    /\ s \in Range(strategies[p])
    /\ strategies' = [strategies EXCEPT ![p] = RemoveFirst(@, s)]
    /\ cleanups' = [cleanups EXCEPT ![p][s] = Bump(@, 1)]
    /\ threads' = Rebound(p, strategies'[p])
    /\ UNCHANGED <<mode, state, trigger_event, frame_interrupted, frame_index, last_time>>
    /\ UNCHANGED <<routerVars, frameVars, hub_log, execVars, last_call, tally, ecsVars, cleaning, hubVars>>

\* remove_strategy_by_index (332-341): the strategy found at the index
\* (counted from 0) is handed to remove_strategy, which removes its first
\* occurrence in the list (list.remove, 307-309) and calls its cleanup();
\* an index out of range is logged and nothing else happens.
RemoveStrategyByIndex(p, index) ==
    IF 0 <= index /\ index < Len(strategies[p])
    THEN RemoveStrategy(p, strategies[p][index + 1])
    ELSE /\ LockFree(p)
         /\ UNCHANGED vars

\* ------------------------------------------------------------------ EventHub
\* Callbacks subscribed on the hub: one that returns, one that raises, and
\* three that call back into the hub they were invoked by (subscribe a
\* callback on the topic, publish on the topic, clear).
HubCallbacks == {"cb_ok", "cb_raise", "cb_sub", "cb_pub", "cb_clear"}

\* A thread that is in no call on the hub.
HubIdle ==
    [pc |-> "idle", op |-> "none", topic |-> "Type", callback |-> "cb_ok", stack |-> <<>>]

\* The subscribe() calls begun and not yet appended.
HubPending ==
    Cardinality({w \in Workers : /\ hub_threads[w].pc \in {"acquire", "locked"}
                                 /\ hub_threads[w].op = "subscribe"})

CanSubscribe ==
    hub_next + HubPending < MaxHubSubs

\* Where a call that has released the lock returns to: the caller, or the
\* callback that made the call (and so the loop of the publish above it).
HubResume(stack) ==
    IF stack = <<>> THEN "idle" ELSE "invoke"

\* publish() that keeps the lock while it runs the callbacks.
LockKept(th) ==
    th

\* The holder of the lock when the "with self._lock" block of publish is
\* left (hub.py 58-59): nobody.
LockAfterSnapshot(th) ==
    None

\* A call of subscribe, publish or clear by a thread that is in no call.
HubCall(th, op, t, cb) ==
    /\ hub_threads[th].pc = "idle"
    /\ op = "subscribe" => CanSubscribe
    /\ hub_threads' = [hub_threads EXCEPT ![th] =
                          [HubIdle EXCEPT !.pc = "acquire", !.op = op, !.topic = t,
                                          !.callback = cb]]
    /\ UNCHANGED <<hub_subscribers, hub_lock, hub_next>>
    /\ UNCHANGED <<pipeVars, routerVars, frameVars, hub_log, execVars, threads, last_call>>
    /\ UNCHANGED <<cleanups, cleaning, tally, ecsVars>>

\* "with self._lock" (hub.py 46, 58, 69): threading.Lock is not reentrant,
\* the thread waits while anyone, itself included, holds it.
HubAcquire(th) ==
    /\ hub_threads[th].pc = "acquire"
    /\ hub_lock = None
    /\ hub_lock' = th
    /\ hub_threads' = [hub_threads EXCEPT ![th].pc = "locked"]
    /\ UNCHANGED <<hub_subscribers, hub_next>>
    /\ UNCHANGED <<pipeVars, routerVars, frameVars, hub_log, execVars, threads, last_call>>
    /\ UNCHANGED <<cleanups, cleaning, tally, ecsVars>>

\* The body of the with block and its exit: subscribe appends (47-49),
\* clear empties the table (70), publish copies the topic's list (59) and
\* goes on to its loop.
HubLocked(th) ==
    LET h == hub_threads[th]
    IN  /\ h.pc = "locked"
        /\ CASE h.op = "subscribe" ->
                  /\ hub_subscribers' = [hub_subscribers EXCEPT ![h.topic] =
                         Append(@, [callback |-> h.callback, id |-> hub_next + 1])]
                  /\ hub_next' = hub_next + 1
                  /\ hub_lock' = None
                  /\ hub_threads' = [hub_threads EXCEPT ![th].pc = HubResume(h.stack)]
             [] h.op = "clear" ->
                  /\ hub_subscribers' = [t \in Topics |-> <<>>]
                  /\ hub_lock' = None
                  /\ hub_threads' = [hub_threads EXCEPT ![th].pc = HubResume(h.stack)]
                  /\ UNCHANGED hub_next
             [] OTHER ->
                  /\ hub_threads' = [hub_threads EXCEPT ![th] =
                         [h EXCEPT !.pc = "invoke",
                                   !.stack = Append(@, [topic |-> h.topic,
                                                        callbacks |-> hub_subscribers[h.topic],
                                                        k |-> 1, stamp |-> hub_next,
                                                        invoked |-> <<>>])]]
                  /\ hub_lock' = LockAfterSnapshot(th)
                  /\ UNCHANGED <<hub_subscribers, hub_next>>
        /\ UNCHANGED <<pipeVars, routerVars, frameVars, hub_log, execVars, threads, last_call>>
        /\ UNCHANGED <<cleanups, cleaning, tally, ecsVars>>

\* One turn of "for cb in callbacks" (62-66): the callback returns, raises
\* (caught and logged), or calls the hub; a publish nested MaxDepth deep
\* ends in a RecursionError, which the except clause takes like any other.
HubInvoke(th) ==
    LET h == hub_threads[th]
        fr == Last(h.stack)
        e == fr.callbacks[fr.k]
        stack == [h.stack EXCEPT ![Len(h.stack)] =
                     [fr EXCEPT !.k = @ + 1, !.invoked = Append(@, e)]]
        calls == CASE e.callback = "cb_sub" -> "subscribe"
                   [] e.callback = "cb_clear" -> "clear"
                   [] e.callback = "cb_pub" /\ Len(h.stack) < MaxDepth -> "publish"
                   [] OTHER -> "none"
    IN  /\ h.pc = "invoke"
        /\ fr.k <= Len(fr.callbacks)
        /\ calls = "subscribe" => CanSubscribe
        /\ hub_threads' = [hub_threads EXCEPT ![th] =
                              IF calls = "none"
                              THEN [h EXCEPT !.stack = stack]
                              ELSE [h EXCEPT !.stack = stack, !.pc = "acquire",
                                             !.op = calls, !.topic = fr.topic,
                                             !.callback = "cb_ok"]]
        /\ UNCHANGED <<hub_subscribers, hub_lock, hub_next>>
        /\ UNCHANGED <<pipeVars, routerVars, frameVars, hub_log, execVars, threads, last_call>>
        /\ UNCHANGED <<cleanups, cleaning, tally, ecsVars>>

\* The loop is over: publish returns to its caller.
HubReturn(th) ==
    LET h == hub_threads[th]
        fr == Last(h.stack)
        stack == SubSeq(h.stack, 1, Len(h.stack) - 1)
    IN  /\ h.pc = "invoke"
        /\ fr.k > Len(fr.callbacks)
        /\ hub_threads' = [hub_threads EXCEPT ![th] =
                              [h EXCEPT !.stack = stack, !.pc = HubResume(stack)]]
        /\ UNCHANGED <<hub_subscribers, hub_lock, hub_next>>
        /\ UNCHANGED <<pipeVars, routerVars, frameVars, hub_log, execVars, threads, last_call>>
        /\ UNCHANGED <<cleanups, cleaning, tally, ecsVars>>

\* ------------------------------------------------------------ specifications
\* The state after assembly: the pipelines in `attached` built from a
\* config (mode, strategy list, event policy table) and attached to the
\* executor in that order, nothing started, no subscription made.
Uniform(rule) ==
    [t \in Topics |-> rule]

InitWith(attached, modes, chains, tables) ==
    /\ mode \in {m \in [Pipes -> PipelineMode] :
                   \A p \in Pipes : IF p \in Range(attached) THEN m[p] \in modes
                                                            ELSE m[p] = "LOOP"}
    /\ state = [p \in Pipes |-> "IDLE"]
    /\ trigger_event = [p \in Pipes |-> FALSE]
    /\ frame_interrupted = [p \in Pipes |-> FALSE]
    /\ strategies \in {c \in [Pipes -> chains \cup {<<>>}] :
                         \A p \in Pipes : IF p \in Range(attached) THEN c[p] \in chains
                                                                  ELSE c[p] = <<>>}
    /\ frame_index = [p \in Pipes |-> 0]
    /\ last_time = [p \in Pipes |-> FALSE]
    /\ subscribers = [p \in Pipes |-> [t \in Topics |-> <<>>]]
    /\ deferred_queue = [p \in Pipes |-> <<>>]
    /\ event_policies \in {e \in [Pipes -> tables \cup {Uniform("NORMAL")}] :
                             \A p \in Pipes : IF p \in Range(attached)
                                              THEN e[p] \in tables
                                              ELSE e[p] = Uniform("NORMAL")}
    /\ log_info = [p \in Pipes |-> TRUE]
    /\ released = {}
    /\ next_fid = 0
    /\ hub_log = <<>>
    /\ running = FALSE
    /\ pipelines = attached
    /\ threads = [w \in Workers |-> Unborn]
    /\ last_call = [op |-> "none", pipe |-> "p1"]
    /\ cleanups = [p \in Pipes |-> [s \in Strats |-> 0]]
    /\ cleaning = {}
    /\ hub_subscribers = [t \in Topics |-> <<>>]
    /\ hub_lock = None
    /\ hub_threads = [w \in Workers |-> HubIdle]
    /\ hub_next = 0
    /\ components = [f \in FrameIds |-> EmptyStore]
    /\ releasing = [w \in Workers |-> Idle]
    /\ history = <<>>
    /\ last_op = NoOp
    /\ tally = [p \in Pipes |-> [triggers |-> 0, executed |-> 0, pending |-> 0, merged |-> 0]]

Lifecycle(p) ==
    \/ Start(p)
    \/ Trigger(p)
    \/ Pause(p)
    \/ Resume(p)
    \/ Stop(p)
    \/ StopCleanup(p)
    \/ BindLastTime(p)

Worker(w, B) ==
    \/ LoopTop(w)
    \/ Visit(w)
    \/ Step(w)
    \/ Walk(w)
    \/ Exec(w, B)
    \/ Finally(w)
    \/ Returned(w)
    \/ GC(w)

\* Two pipelines on one executor with one worker thread; the strategies
\* succeed, fail, raise or publish a CRITICAL event.
Init ==
    InitWith(<<"p1", "p2">>, {"LOOP", "SINGLE"}, {<<"s1">>}, {Uniform("NORMAL")})

Next ==
    \/ \E p \in Pipes : Lifecycle(p)
    \/ ExecutorStart(1)
    \/ ExecutorStop
    \/ Worker(1, CriticalBehaviours)

Spec ==
    Init /\ [][Next]_vars

\* One pipeline in any mode, one worker thread, plain strategies.
InitLife ==
    InitWith(<<"p1">>, PipelineMode, {<<"s1">>, <<"s1", "s2">>}, {Uniform("NORMAL")})

NextLife ==
    \/ Lifecycle("p1")
    \/ ExecutorStart(1)
    \/ ExecutorStop
    \/ Worker(1, PlainBehaviours)

SpecLife ==
    InitLife /\ [][NextLife]_vars

\* One LOOP or SINGLE pipeline of three strategies that pass frames along:
\* each call returns the frame it got, a new one or None, with success true
\* or false, or raises.
InitFrames ==
    InitWith(<<"p1">>, {"LOOP", "SINGLE"}, {<<"s1", "s2", "s3">>}, {Uniform("NORMAL")})

NextFrames ==
    \/ Lifecycle("p1")
    \/ ExecutorStart(1)
    \/ ExecutorStop
    \/ Worker(1, FrameBehaviours)

SpecFrames ==
    InitFrames /\ [][NextFrames]_vars

\* One SINGLE pipeline of two strategies that publish on its router,
\* at any priority, on a class topic or a str topic, under any event policy
\* table; callbacks are subscribed and the log policy changed meanwhile.
InitRouter ==
    InitWith(<<"p1">>, {"SINGLE"}, {<<"s1", "s2">>},
             {Uniform(rule) : rule \in EventRule})

NextRouter ==
    \/ Start("p1")
    \/ BindLastTime("p1")
    \/ ExecutorStart(1)
    \/ \E t \in Topics, h \in Handlers : Subscribe("p1", t, h)
    \/ \E info \in BOOLEAN : SetLogPolicy("p1", info)
    \/ Worker(1, PublishBehaviours)

SpecRouter ==
    InitRouter /\ [][NextRouter]_vars

\* One LOOP or SINGLE pipeline of two strategies that publish DEFERRED
\* events, on a class topic or a str topic; the callbacks subscribed meanwhile
\* may raise or publish a DEFERRED event themselves.
InitDeferred ==
    InitWith(<<"p1">>, {"LOOP", "SINGLE"}, {<<"s1", "s2">>}, {Uniform("NORMAL")})

NextDeferred ==
    \/ Start("p1")
    \/ BindLastTime("p1")
    \/ ExecutorStart(1)
    \/ \E t \in Topics, h \in {"h_raise"} \cup PublishingHandlers : Subscribe("p1", t, h)
    \/ \E info \in BOOLEAN : SetLogPolicy("p1", info)
    \/ Worker(1, DeferredBehaviours)

SpecDeferred ==
    InitDeferred /\ [][NextDeferred]_vars

\* One LOOP pipeline of two strategies, the first of which may create the
\* frame of the step and either may publish events that the end of the step
\* flushes to the callbacks subscribed meanwhile.
InitFlush ==
    InitWith(<<"p1">>, {"LOOP"}, {<<"s1", "s2">>}, {Uniform("NORMAL")})

NextFlush ==
    \/ Start("p1")
    \/ BindLastTime("p1")
    \/ ExecutorStart(1)
    \/ \E h \in Handlers : Subscribe("p1", "Type", h)
    \/ Worker(1, FlushBehaviours)

SpecFlush ==
    InitFlush /\ [][NextFlush]_vars

\* An EventHub that two threads subscribe callbacks on (on the class
\* topic), publish on (on either topic) and clear, the callbacks calling
\* back into the hub.
NextHub ==
    \E th \in Workers :
        \/ \E cb \in HubCallbacks : HubCall(th, "subscribe", "Type", cb)
        \/ \E t \in Topics : HubCall(th, "publish", t, "cb_ok")
        \/ HubCall(th, "clear", "Type", "cb_ok")
        \/ HubAcquire(th)
        \/ HubLocked(th)
        \/ HubInvoke(th)
        \/ HubReturn(th)

InitHub ==
    InitWith(<<"p1">>, {"LOOP"}, {<<"s1">>}, {Uniform("NORMAL")})

SpecHub ==
    InitHub /\ [][NextHub]_vars

\* One RUNNING LOOP pipeline whose chain is edited (add, insert, remove)
\* by other threads while the worker steps it.
OkBehaviours ==
    {Quiet("ok", "same")}

Edit(p) ==
    \/ \E s \in Strats : AddStrategy(p, s)
    \/ \E s \in Strats, index \in 0..MaxChain : InsertStrategy(p, index, s)
    \/ \E s \in Strats : RemoveStrategy(p, s)

InitEdit ==
    InitWith(<<"p1">>, {"LOOP"}, {<<"s1">>, <<"s1", "s2">>}, {Uniform("NORMAL")})

NextEdit ==
    \/ Start("p1")
    \/ BindLastTime("p1")
    \/ ExecutorStart(1)
    \/ Edit("p1")
    \/ Worker(1, OkBehaviours)

SpecEdit ==
    InitEdit /\ [][NextEdit]_vars

\* One LOOP pipeline whose chain holds the same strategy instance at two
\* positions, or two instances, and from which strategies are removed by
\* index, in range or not, while the worker steps it.
InitIndex ==
    InitWith(<<"p1">>, {"LOOP"}, {<<"s1", "s2", "s1">>, <<"s1", "s2">>}, {Uniform("NORMAL")})

NextIndex ==
    \/ Start("p1")
    \/ BindLastTime("p1")
    \/ ExecutorStart(1)
    \/ \E index \in -1..3 : RemoveStrategyByIndex("p1", index)
    \/ Worker(1, OkBehaviours)

SpecIndex ==
    InitIndex /\ [][NextIndex]_vars

\* One executor that is started and stopped from other threads while the
\* threads its start() calls created sweep two RUNNING LOOP pipelines.
InitRace ==
    InitWith(<<"p1", "p2">>, {"LOOP"}, {<<"s1">>}, {Uniform("NORMAL")})

NextRace ==
    \/ \E p \in Pipes : Start(p) \/ BindLastTime(p)
    \/ ExecutorStart(MaxWorkers)
    \/ ExecutorStop
    \/ \E w \in Workers : Worker(w, OkBehaviours)

SpecRace ==
    InitRace /\ [][NextRace]_vars

\* One LOOP or SINGLE pipeline of two strategies that publish synchronously
\* on a class topic; the callbacks subscribed meanwhile return, and some
\* subscribe a further callback to the topic when they are called.
SubscribeBehaviours ==
    {Publishing("Type", pri, FALSE, "ok") : pri \in {IMMEDIATE, INTERRUPT}}
        \cup {Quiet("ok", "same")}

InitSubscribe ==
    InitWith(<<"p1">>, {"LOOP", "SINGLE"}, {<<"s1", "s2">>}, {Uniform("NORMAL")})

NextSubscribe ==
    \/ Start("p1")
    \/ BindLastTime("p1")
    \/ ExecutorStart(1)
    \/ \E h \in {"h_ok"} \cup SubscribingHandlers : Subscribe("p1", "Type", h)
    \/ Worker(1, SubscribeBehaviours)

SpecSubscribe ==
    InitSubscribe /\ [][NextSubscribe]_vars

\* Frames created by the factory and used by several threads: components
\* are added, removed and read, and the frames are released, in any order.
InitEcs ==
    InitWith(<<"p1">>, {"LOOP"}, {<<"s1">>}, {Uniform("NORMAL")})

NextEcs ==
    \/ NewFrame
    \/ \E f \in FrameIds, c \in Components : AddComponent(f, c)
    \/ \E f \in FrameIds, tag \in Tags :
          \/ RemoveComponent(f, tag)
          \/ GetComponent(f, tag)
          \/ HasComponent(f, tag)
    \/ \E w \in Workers :
          \/ \E f \in FrameIds : ReleaseCall(w, f)
          \/ ReleaseClear(w)
          \/ ReleaseDone(w)

SpecEcs ==
    InitEcs /\ [][NextEcs]_vars

\* Two SINGLE pipelines on one executor whose worker thread keeps being
\* scheduled: a thread that can take a step of _loop eventually takes it
\* (the calls it makes return, time.sleep(0.01) ends), and a stop() that
\* holds the pipeline lock finishes its cleanup().
InitLive ==
    InitWith(<<"p1", "p2">>, {"SINGLE"}, {<<"s1">>}, {Uniform("NORMAL")})

NextLive ==
    \/ \E p \in Pipes : Lifecycle(p)
    \/ ExecutorStart(1)
    \/ ExecutorStop
    \/ Worker(1, PlainBehaviours)

SpecLive ==
    /\ InitLive /\ [][NextLive]_vars
    /\ WF_vars(Worker(1, PlainBehaviours))
    /\ \A p \in Pipes : WF_vars(StopCleanup(p))

\* ------------------------------------------------------------------ claims
\* The executor is done with the step thread w ran last: the step at
\* position i - 1 of the current sweep has returned and has been handled.
Handled(w) ==
    LET t == threads[w]
    IN  /\ t.pc = "visit"
        /\ t.i >= 2
        /\ t.current_pipelines[t.i - 1] = t.pipe
        /\ t.result # "none"

FailedLast(t) ==
    t.ran # <<>> /\ Last(t.ran).kind = "fail"

RaisedLast(t) ==
    t.ran # <<>> /\ Last(t.ran).kind = "raise"

Executed(t) ==
    [k \in 1..Len(t.ran) |-> t.ran[k].strategy]

\* C1: once a pipeline's state is TERMINATED, no step of the system (start,
\* pause, resume, stop, trigger or a step() on any thread) changes it.
C1_TerminatedIsAbsorbing ==
    [][\A p \in Pipes : state[p] = "TERMINATED" => state'[p] = "TERMINATED"]_vars

\* C1 witness: start() has been called on a pipeline that was TERMINATED,
\* and the pipeline is TERMINATED.
C1_Witness ==
    /\ last_call.op = "start"
    /\ state[last_call.pipe] = "TERMINATED"

\* C2 (as claimed): when the executor handles the return of a step in
\* which a strategy published at CRITICAL priority on a non-DROP topic, it
\* publishes a SYSTEM_ALERT of level CRITICAL for that pipeline on the hub
\* and the pipeline's state becomes TERMINATED.
C2_CriticalEscalates ==
    [][\A w \in Workers :
          LET t == threads[w]
          IN  (/\ t.pc = "returned"
               /\ threads'[w].pc # "returned"
               /\ \E k \in 1..Len(t.ran) :
                     /\ t.ran[k].pub
                     /\ t.ran[k].priority = CRITICAL
                     /\ t.ran[k].rule # "DROP")
              => /\ hub_log' = Append(hub_log, Alert(t.pipe))
                 /\ state'[t.pipe] = "TERMINATED"]_vars

\* C3: no subscriber callback is ever invoked for an event published at
\* CRITICAL priority: not by the publish itself (the callbacks it invoked
\* are none), not by any flush of the deferred queue (no call made during
\* a step carries that priority, and no queued event does).
C3_CriticalInvokesNoSubscriber ==
    /\ \A w \in Workers :
          LET t == threads[w]
          IN  /\ \A k \in 1..Len(t.calls) : t.calls[k].priority # CRITICAL
              /\ \A k \in 1..Len(t.ran) :
                    (t.ran[k].pub /\ t.ran[k].priority = CRITICAL)
                    => t.ran[k].called = <<>>
    /\ \A p \in Pipes :
          \A k \in 1..Len(deferred_queue[p]) : deferred_queue[p][k].priority # CRITICAL

\* C3 witness: a step has returned (its deferred flush is done) in which a
\* strategy published at CRITICAL priority on a non-DROP topic that had
\* subscribers, and in which subscribers of that very topic were invoked
\* for another event.
C3_Witness ==
    \E w \in Workers :
        LET t == threads[w]
        IN  /\ t.pc = "returned"
            /\ \E k \in 1..Len(t.ran) :
                  /\ t.ran[k].pub
                  /\ t.ran[k].priority = CRITICAL
                  /\ t.ran[k].rule # "DROP"
                  /\ t.ran[k].subs_at # <<>>
                  /\ \E j \in 1..Len(t.calls) : t.calls[j].topic = t.ran[k].topic

\* C4: when the step a worker ran raised, the executor's handling of it
\* leaves the thread in its sweep, at the next pipeline of the same
\* snapshot, and changes neither the attached list, the running flag nor
\* any other pipeline's state or frame_index.
C4_ExecutorSurvivesStepError ==
    [][\A w \in Workers :
          (/\ threads[w].pc = "returned"
           /\ threads[w].result \in Raises
           /\ threads'[w].pc # "returned")
          => /\ threads'[w].pc = "visit"
             /\ threads'[w].i = threads[w].i + 1
             /\ threads'[w].current_pipelines = threads[w].current_pipelines
             /\ pipelines' = pipelines
             /\ running' = running
             /\ \A q \in Pipes \ {threads[w].pipe} :
                   /\ state'[q] = state[q]
                   /\ frame_index'[q] = frame_index[q]]_vars

\* C4 witness: the step of the first pipeline of the sweep raised, the
\* executor handled it and the thread is about to visit the second one,
\* which is RUNNING.
C4_Witness ==
    \E w \in Workers :
        LET t == threads[w]
        IN  /\ Handled(w)
            /\ t.result \in Raises
            /\ t.i <= Len(t.current_pipelines)
            /\ state[t.current_pipelines[t.i]] = "RUNNING"

\* C5: the strategies a step has executed are, in order, the first ones of
\* the chain value the pipeline had when the walk began, and a walk in
\* which every strategy succeeded has executed that whole chain value,
\* whatever add / insert / remove calls were made meanwhile.
C5_StepSeesOneChainVersion ==
    \A w \in Workers :
        LET t == threads[w]
        IN  t.pc \in InStep \cup {"returned"}
            => /\ Prefix(Executed(t), t.snapshot)
               /\ (t.pc \in {"finally", "returned"}
                      /\ \A k \in 1..Len(t.ran) : t.ran[k].kind = "ok")
                  => Executed(t) = t.snapshot

\* C5 witness: a step that has executed the first strategy of a chain of
\* two is about to execute the second one, while the pipeline's chain has
\* been replaced by an edit and differs from the one being walked.
C5_Witness ==
    \E w \in Workers :
        LET t == threads[w]
        IN  /\ t.pc = "exec"
            /\ ~t.alias
            /\ Len(t.ran) = 1
            /\ Len(t.snapshot) = 2
            /\ t.strategy = t.snapshot[2]
            /\ strategies[t.pipe] # t.snapshot

\* C6 (as claimed): at every moment at most one thread of the executor is
\* inside a step() call.
C6_OneStepAtATime ==
    Cardinality({w \in Workers : threads[w].pc \in InStep}) <= 1

\* C7: in the record of the strategies a step has executed, a strategy that
\* returned success=false is the last one: none after it in the chain is
\* executed in that step.
C7_FailureEndsWalk ==
    \A w \in Workers :
        \A k \in 1..Len(threads[w].ran) :
            threads[w].ran[k].kind = "fail" => k = Len(threads[w].ran)

\* C7 witness: a step of a RUNNING pipeline has returned, the last strategy
\* it executed returned success=false and the chain it walked had
\* strategies after that one.
C7_Witness ==
    \E w \in Workers :
        LET t == threads[w]
        IN  /\ t.pc = "returned"
            /\ FailedLast(t)
            /\ Len(t.ran) < Len(t.snapshot)
            /\ state[t.pipe] = "RUNNING"

\* C8 (as claimed): when step() has returned and the last strategy it
\* executed was invoked with a frame F and returned success=false, F is
\* released, whatever frame value came back with the failure.
C8_FailureDisposesFrame ==
    \A w \in Workers :
        LET t == threads[w]
        IN  (t.pc = "returned" /\ FailedLast(t) /\ Last(t.ran).arg # None)
            => Last(t.ran).arg \in released

\* C9: a strategy whose execute() raised is the last one its step executes,
\* the frame it was invoked with is released, the step returns a boolean
\* instead of raising, no step of the raising walk changes the state of a
\* LOOP pipeline, and the next step() of that pipeline starts at position 1
\* of the pipeline's current chain.
C9_RaiseIsContained ==
    /\ [](\A w \in Workers :
            LET t == threads[w]
            IN  /\ \A k \in 1..Len(t.ran) : t.ran[k].kind = "raise" => k = Len(t.ran)
                /\ (t.pc \in {"finally", "returned"} /\ RaisedLast(t))
                   => Truthy(Last(t.ran).arg) \subseteq released
                /\ (t.pc = "returned" /\ RaisedLast(t))
                   => t.result \in {"true", "false"})
    /\ [][\A w \in Workers :
            LET t == threads[w]
                u == threads'[w]
            IN  /\ (/\ t.pc \in {"exec", "finally"}
                    /\ u.pc # t.pc
                    /\ RaisedLast(u)
                    /\ mode[t.pipe] = "LOOP")
                   => state'[t.pipe] = state[t.pipe]
                /\ (t.pc = "call" /\ u.pc = "walk" /\ u.after_raise # <<>>)
                   => /\ u.pos = 1
                      /\ u.current_chain = strategies[u.pipe]]_vars

\* C9 witness: a LOOP pipeline is RUNNING and its step has fetched the
\* first strategy of the chain, after a step whose last strategy raised
\* when invoked with a frame.
C9_Witness ==
    \E w \in Workers :
        LET t == threads[w]
        IN  /\ t.pc = "exec"
            /\ t.after_raise # <<>>
            /\ t.after_raise[1].arg # None
            /\ t.strategy = t.snapshot[1]
            /\ mode[t.pipe] = "LOOP"
            /\ state[t.pipe] = "RUNNING"

\* C10 (as claimed): a publish at INTERRUPT priority on a non-DROP topic
\* has invoked every subscriber the topic had, has returned normally to
\* the publishing strategy, and that strategy is the last one its step
\* executes.
C10_InterruptDispatchesAndStops ==
    \A w \in Workers :
        LET t == threads[w]
        IN  \A k \in 1..Len(t.ran) :
               (t.ran[k].pub /\ t.ran[k].priority = INTERRUPT /\ t.ran[k].rule # "DROP")
               => /\ t.ran[k].called = t.ran[k].subs_at
                  /\ t.ran[k].raised = "none"
                  /\ k = Len(t.ran)

\* C11 (as claimed): when the process_deferred() call of a step has
\* returned, the events it dispatched are exactly the events the queue held
\* when it began, in queue order, it raised nothing, and the queue holds
\* exactly the events callbacks enqueued during the drain.
C11_FlushDrainsWhatWasQueued ==
    \A w \in Workers :
        LET t == threads[w]
        IN  (t.pc = "returned" /\ t.flush # <<>>)
            => /\ t.flush[1].dispatched = t.flush[1].before
               /\ t.flush[1].raised = "none"
               /\ t.flush[1].after = t.flush[1].enq

\* C12: a publish at DEFERRED priority on a topic that is not DROP invokes
\* no callback and puts the event at the tail of the queue; no callback is
\* invoked for a DEFERRED event before the flush at the end of the step;
\* and the flush takes the events from the head: what it dispatched is a
\* prefix of the queue it found, in that order, and what is left is the
\* rest of that queue followed by the events enqueued during the flush.
C12_DeferredWaitsForFlushInOrder ==
    /\ [](\A w \in Workers :
            LET t == threads[w]
            IN  /\ t.pc \in {"walk", "exec", "finally"}
                   => \A k \in 1..Len(t.calls) : t.calls[k].priority # DEFERRED
                /\ (t.pc = "returned" /\ t.flush # <<>>)
                   => LET f == t.flush[1]
                          taken == Len(f.before) - (Len(f.after) - Len(f.enq))
                      IN  /\ Prefix(f.dispatched, f.before)
                          /\ taken \in {Len(f.dispatched), Len(f.dispatched) + 1}
                          /\ f.after = SubSeq(f.before, taken + 1, Len(f.before)) \o f.enq)
    /\ [][\A w \in Workers :
            LET t == threads[w]
                u == threads'[w]
                p == t.pipe
            IN  (/\ t.pc = "exec"
                 /\ Len(u.ran) = Len(t.ran) + 1
                 /\ Last(u.ran).pub
                 /\ Last(u.ran).priority = DEFERRED
                 /\ Last(u.ran).rule # "DROP")
                => /\ Last(u.ran).called = <<>>
                   /\ u.calls = t.calls
                   /\ Len(deferred_queue'[p]) = Len(deferred_queue[p]) + 1
                   /\ Prefix(deferred_queue[p], deferred_queue'[p])
                   /\ Last(deferred_queue'[p]).topic = Last(u.ran).topic
                   /\ Last(deferred_queue'[p]).data = <<frame_index[p], t.strategy>>]_vars

\* C12 witness: the two strategies of a step each published a DEFERRED
\* event, on topics that had subscribers, and the flush at the end of the
\* step has dispatched the two events in the order of their publication.
C12_Witness ==
    \E w \in Workers :
        LET t == threads[w]
        IN  /\ t.pc = "returned"
            /\ t.flush # <<>>
            /\ Len(t.ran) = 2
            /\ \A k \in 1..2 : t.ran[k].pub /\ t.ran[k].priority = DEFERRED
                                  /\ t.ran[k].subs_at # <<>>
            /\ Len(t.flush[1].dispatched) = 2
            /\ \A k \in 1..2 : t.flush[1].dispatched[k].data[2] = t.ran[k].strategy
            /\ \E k \in 1..Len(t.calls) : t.calls[k].priority = DEFERRED

C14_TriggerGatesOneStep ==
    [][\A w \in Workers :
          LET t == threads[w]
              u == threads'[w]
              p == u.pipe
          IN  (/\ t.pc = "call"
               /\ u.pc # "call"
               /\ mode[p] = "CONDITIONAL"
               /\ state[p] = "RUNNING")
              => /\ ~trigger_event'[p]
                 /\ IF trigger_event[p]
                    THEN u.pc = "walk" /\ u.snapshot = strategies[p]
                    ELSE u.pc = "returned" /\ u.result = "false" /\ u.ran = <<>>]_vars

C16_SingleRunsOnce ==
    \A p \in Pipes :
        mode[p] = "SINGLE"
        => /\ tally[p].executed <= 1
           /\ \A w \in Workers :
                 LET t == threads[w]
                 IN  (t.pc = "returned" /\ t.pipe = p)
                     => IF t.passed
                        THEN state[p] = "TERMINATED" /\ t.result \in {"true", "false"}
                        ELSE t.result = "false" /\ t.ran = <<>>

\* C17 (as claimed): in a dispatch made by publish at IMMEDIATE or INTERRUPT
\* priority on a topic that is not DROP, a callback that raises does not
\* make the dispatch raise, and every subscriber the topic had is invoked,
\* those after the raising one included.
C17_HandlerErrorIsContained ==
    \A w \in Workers :
        LET t == threads[w]
        IN  \A k \in 1..Len(t.ran) :
               (/\ t.ran[k].pub
                /\ t.ran[k].priority \in {IMMEDIATE, INTERRUPT}
                /\ t.ran[k].rule # "DROP"
                /\ "h_raise" \in Range(t.ran[k].called))
               => /\ t.ran[k].raised = "none"
                  /\ t.ran[k].called = t.ran[k].subs_at

\* C18: a strategy's publish on a topic whose policy is DROP, at whatever
\* priority, invokes no callback and raises nothing, and the call that made
\* it leaves the router (queue, subscribers, policies, log policy) and the
\* pipeline (state, mode, trigger, frame-interrupt flag, chain, frame index)
\* as they were.
C18_DropIsNoOp ==
    [][\A w \in Workers :
          LET t == threads[w]
              u == threads'[w]
          IN  (/\ t.pc = "exec"
               /\ Len(u.ran) = Len(t.ran) + 1
               /\ Last(u.ran).pub
               /\ Last(u.ran).rule = "DROP")
              => /\ Last(u.ran).called = <<>>
                 /\ Last(u.ran).raised = "none"
                 /\ Last(u.ran).kind # "raise"
                 /\ u.calls = t.calls
                 /\ routerVars' = routerVars
                 /\ pipeVars' = pipeVars]_vars

\* C18 witness: a strategy has published at INTERRUPT priority on a DROP
\* topic that had a subscriber, and the step went on to another strategy.
C18_Witness ==
    \E w \in Workers :
        LET t == threads[w]
        IN  /\ Len(t.ran) = 2
            /\ t.ran[1].pub
            /\ t.ran[1].rule = "DROP"
            /\ t.ran[1].priority = INTERRUPT
            /\ t.ran[1].subs_at # <<>>
            /\ ~frame_interrupted[t.pipe]

\* C19: whenever a pipeline is TERMINATED and attached to the executor, it
\* is eventually no longer in the attached list, unless the executor is
\* stopped (its running flag cleared) first.
C19_TerminatedIsEventuallyDetached ==
    \A p \in Pipes :
        (state[p] = "TERMINATED" /\ p \in Range(pipelines))
            ~> (p \notin Range(pipelines) \/ ~running)

\* C19 witness: the executor is running, its worker has removed a
\* TERMINATED pipeline from the attached list and has begun another sweep
\* over the pipeline that is left.
C19_Witness ==
    /\ running
    /\ \E p \in Pipes : state[p] = "TERMINATED" /\ pipelines = <<p>>
    /\ \E w \in Workers : threads[w].pc = "visit" /\ threads[w].current_pipelines = pipelines

\* C20: when the step a worker ran raised an error that is not a
\* PipelineCriticalError, the executor's handling of it changes no
\* pipeline's state, leaves the attached list as it is, publishes nothing
\* to the hub and marks nothing for removal; the thread goes on with the
\* sweep, and the pipeline is still in the list the next sweep snapshots.
C20_NonCriticalErrorIsLoggedOnly ==
    [][\A w \in Workers :
          (/\ threads[w].pc = "returned"
           /\ threads[w].result \in Raises \ {"PipelineCriticalError"}
           /\ threads'[w].pc # "returned")
          => /\ state' = state
             /\ pipelines' = pipelines
             /\ hub_log' = hub_log
             /\ threads'[w].pipelines_to_remove = threads[w].pipelines_to_remove
             /\ threads'[w].pc = "visit"]_vars

\* C20 witness: the step of a RUNNING, attached pipeline raised an
\* AttributeError, the executor has handled it, and nothing has been
\* published to the hub.
C20_Witness ==
    \E w \in Workers :
        LET t == threads[w]
        IN  /\ Handled(w)
            /\ t.result = "AttributeError"
            /\ state[t.pipe] = "RUNNING"
            /\ t.pipe \in Range(pipelines)
            /\ t.pipelines_to_remove = <<>>
            /\ hub_log = <<>>

\* A frame in use: created, its flag unset and no release() at work on it.
Live(f) ==
    /\ Created(f)
    /\ f \notin released
    /\ ~Locked(f)

\* The component get(tag) is to return on frame f after the calls of h: the
\* one of the last add under the tag, absent if a remove came after it or
\* no add was made.
RECURSIVE LatestAdded(_, _, _)
LatestAdded(h, f, tag) ==
    IF h = <<>> THEN Absent
    ELSE IF Last(h).frame = f /\ Last(h).tag = tag
         THEN Last(h).component
         ELSE LatestAdded(SubSeq(h, 1, Len(h) - 1), f, tag)

\* C21: disposal is idempotent and irreversible.  No step of the system takes
\* a frame's flag from set to unset; a release() call on a frame whose flag
\* is set returns at once and changes neither a component mapping nor a flag;
\* a release() that goes through leaves the frame with an empty mapping and
\* its flag set.
C21_DisposalIdempotentIrreversible ==
    /\ [][\A f \in FrameIds : f \in released => f \in released']_vars
    /\ [][\A w \in Workers, f \in FrameIds :
             (ReleaseCall(w, f) /\ f \in released)
             => /\ components' = components
                /\ released' = released
                /\ releasing' = releasing]_vars
    /\ [][\A w \in Workers :
             (releasing[w].pc = "cleared" /\ releasing'[w].pc = "idle")
             => /\ releasing[w].frame \in released'
                /\ components'[releasing[w].frame] = EmptyStore]_vars

\* C21 witness: a frame that held a component has been released, and a
\* further release() on it has returned at once: the flag is set and the
\* mapping is empty.
C21_Witness ==
    \E f \in FrameIds :
        /\ last_op.op = "release" /\ last_op.frame = f /\ last_op.result = "early"
        /\ f \in released
        /\ components[f] = EmptyStore
        /\ \E k \in 1..Len(history) : history[k].frame = f /\ history[k].op = "add"

\* C22: on a live frame the mapping holds, under each tag, the component of
\* the last add under that tag unless a remove of the tag came after it, and
\* nothing otherwise; get returns just that and has tells whether there is
\* one; add and remove change the entry of their own tag on their own frame
\* only; get, has and remove raise nothing, for a missing tag either.
C22_OneComponentPerTag ==
    /\ [](\A f \in FrameIds, tag \in Tags :
            Live(f) => components[f][tag] = LatestAdded(history, f, tag))
    /\ [][\A f \in FrameIds, tag \in Tags :
             /\ (GetComponent(f, tag) /\ Live(f))
                => /\ last_op'.result = LatestAdded(history, f, tag)
                   /\ last_op'.raised = "none"
             /\ (HasComponent(f, tag) /\ Live(f))
                => /\ last_op'.has = (LatestAdded(history, f, tag) # Absent)
                   /\ last_op'.raised = "none"
             /\ (RemoveComponent(f, tag) /\ Live(f))
                => /\ last_op'.raised = "none"
                   /\ components'[f][tag] = Absent
                   /\ \A g \in FrameIds, u \in Tags :
                         (g # f \/ u # tag) => components'[g][u] = components[g][u]
             /\ \A c \in Components :
                   (AddComponent(f, c) /\ Live(f) /\ TypeOf(c) = tag)
                   => /\ components'[f][tag] = c
                      /\ \A g \in FrameIds, u \in Tags :
                            (g # f \/ u # tag) => components'[g][u] = components[g][u]]_vars

\* C22 witness: on a live frame a component of class B was added, then the
\* missing tag A was removed without an error; get(A) has returned absent and
\* the component of class B is still there.
C22_Witness ==
    \E f \in FrameIds :
        /\ Live(f)
        /\ history = <<[op |-> "add", frame |-> f, tag |-> "B", component |-> "b1"],
                       [op |-> "remove", frame |-> f, tag |-> "A", component |-> Absent]>>
        /\ last_op = [NoOp EXCEPT !.op = "get", !.frame = f, !.tag = "A"]
        /\ components[f]["B"] = "b1"

\* C23: a stop() call on a pipeline that is not TERMINATED takes it to
\* TERMINATED and runs one cleanup: the cleanup (in the step that takes the
\* pipeline to TERMINATED when the stop is the end of a SINGLE step or the
\* executor's, in the step that follows while the lock is held when the
\* stop is called from outside) counts exactly one more cleanup() on each
\* strategy the chain held and none on any other, leaves the chain empty
\* and the context reset (frame_index 0).  No pipeline gets to TERMINATED
\* without that cleanup done or pending, and a stop() call on a TERMINATED
\* pipeline changes nothing of the pipeline and starts no cleanup.
C23_StopCleansUpOnce ==
    [][\A p \in Pipes :
          LET cleaned == /\ \A s \in Strats :
                               cleanups'[p][s] =
                                  IF s \in Range(strategies[p])
                                  THEN cleanups[p][s] + 1 ELSE cleanups[p][s]
                         /\ strategies'[p] = <<>>
                         /\ frame_index'[p] = 0
          IN  /\ (state[p] # "TERMINATED" /\ state'[p] = "TERMINATED")
                 => IF p \in cleaning'
                    THEN cleanups'[p] = cleanups[p] /\ strategies'[p] = strategies[p]
                    ELSE cleaned
              /\ (p \in cleaning /\ p \notin cleaning') => cleaned
              /\ (p \notin cleaning /\ p \in cleaning')
                 => state[p] # "TERMINATED" /\ state'[p] = "TERMINATED"
              /\ (Stop(p) /\ state[p] # "TERMINATED")
                 => state'[p] = "TERMINATED" /\ p \in cleaning'
              /\ (Stop(p) /\ state[p] = "TERMINATED")
                 => /\ pipeVars' = pipeVars
                    /\ cleanups' = cleanups
                    /\ cleaning' = cleaning
                    /\ threads' = threads]_vars

\* C23 witness: stop() has been called on a pipeline that was TERMINATED;
\* the pipeline is TERMINATED, its chain is empty, and cleanup() has been
\* called once on each of the two strategies its chain held.
C23_Witness ==
    /\ last_call.op = "stop"
    /\ state[last_call.pipe] = "TERMINATED"
    /\ strategies[last_call.pipe] = <<>>
    /\ cleanups[last_call.pipe] = [s \in Strats |-> IF s \in {"s1", "s2"} THEN 1 ELSE 0]

\* C24: pause() takes a RUNNING pipeline to PAUSED and leaves the state of
\* a pipeline in any other state as it is; resume() takes a PAUSED pipeline
\* to RUNNING and leaves the state of a pipeline in any other state as it
\* is; neither touches anything else of the pipeline.  No step of the
\* system takes a pipeline to PAUSED from a state other than RUNNING.
C24_PauseResumeOnlyFromTheirState ==
    [][\A p \in Pipes :
          /\ (Pause(p) /\ state[p] = "RUNNING") => state'[p] = "PAUSED"
          /\ (Pause(p) /\ state[p] # "RUNNING") => state'[p] = state[p]
          /\ (Resume(p) /\ state[p] = "PAUSED") => state'[p] = "RUNNING"
          /\ (Resume(p) /\ state[p] # "PAUSED") => state'[p] = state[p]
          /\ (Pause(p) \/ Resume(p))
             => /\ strategies' = strategies /\ frame_index' = frame_index
                /\ trigger_event' = trigger_event /\ cleanups' = cleanups
          /\ (state[p] # "PAUSED" /\ state'[p] = "PAUSED") => state[p] = "RUNNING"]_vars

\* C24 witness: one pipeline is PAUSED (pause() found it RUNNING), and the
\* last call on the other, TERMINATED, pipeline was a resume() that left it
\* TERMINATED.
C24_Witness ==
    /\ state["p1"] = "PAUSED"
    /\ last_call = [op |-> "resume", pipe |-> "p2"]
    /\ state["p2"] = "TERMINATED"

\* C25: start() on a pipeline that is RUNNING changes nothing of it: the
\* state, the conditional trigger flag, the context (frame_index) and the
\* strategy chain after the call are those before it, in every mode.
\* (Violated: lines 97-98 clear the trigger flag of a CONDITIONAL pipeline
\* before the state is looked at.)
C25_StartOnRunningIsNoOp ==
    [][\A p \in Pipes :
          (Start(p) /\ state[p] = "RUNNING")
          => /\ state'[p] = state[p]
             /\ trigger_event'[p] = trigger_event[p]
             /\ frame_index'[p] = frame_index[p]
             /\ strategies'[p] = strategies[p]]_vars

\* C26: a step never begins the execute() of a strategy on which cleanup()
\* has been called: whenever a thread leaves the point just before
\* strategy.execute(current_data), no cleanup() of that strategy of that
\* pipeline has been counted.  (Violated: the walk checks TERMINATED at
\* line 182 without the lock, and stop() may run cleanup() between that
\* check and the call of line 202.)
C26_NoExecuteAfterCleanup ==
    [][\A w \in Workers :
          (threads[w].pc = "exec" /\ threads'[w].pc # "exec")
          => cleanups[threads[w].pipe][threads[w].strategy] = 0]_vars

\* C27: a step() that passed the state and mode gates has called
\* process_deferred() exactly once when it has returned or raised, whatever
\* its exit path.  (Violated: a step that raises at line 160 never enters
\* the try statement whose finally block makes the call.)
C27_FlushOncePerStep ==
    \A w \in Workers :
        (threads[w].pc = "returned" /\ threads[w].passed)
        => Len(threads[w].flush) = 1

\* C28: every step() that passes the gates, the first one after
\* construction included, records the advanced frame_index into the context
\* and goes on to walk the chain the pipeline holds.  (Violated: _last_time
\* is read at line 160 and __init__ never binds it.)
C28_GatePassedStepWalks ==
    [][\A w \in Workers :
          LET t == threads[w]
              u == threads'[w]
          IN  (t.pc = "call" /\ u.pc # "call" /\ u.passed)
              => /\ u.pc = "walk"
                 /\ u.snapshot = strategies[u.pipe]
                 /\ frame_index'[u.pipe] = frame_index[u.pipe] + 1]_vars

C30_DispatchCallsSubscribersAtStart ==
    \A w \in Workers :
        \A k \in 1..Len(threads[w].ran) :
            LET e == threads[w].ran[k]
            IN  (e.pub /\ e.priority \in {IMMEDIATE, INTERRUPT} /\ e.raised = "none")
                => e.called = e.subs_at

\* C31: a publish a strategy makes on a NORMAL topic writes a publish log
\* record if and only if the priority is INTERRUPT or CRITICAL, or the
\* router's log policy allows INFO.  (Violated: trace_publish hands the
\* record to SysLogger.info with the router as source, and SysLogger.info
\* drops it when the router's log policy disallows INFO, whatever the
\* priority.)
C31_HighPriorityAlwaysLogged ==
    [][\A w \in Workers :
          LET t == threads[w]
              u == threads'[w]
          IN  (t.pc = "exec" /\ Len(u.ran) = Len(t.ran) + 1
               /\ Last(u.ran).pub /\ Last(u.ran).rule = "NORMAL")
              => (Last(u.ran).logged
                  <=> (Last(u.ran).priority >= INTERRUPT \/ log_info[u.pipe]))]_vars

\* C32: when another thread has stopped the pipeline while a step is in its
\* walk with a strategy of the chain it bound still to visit, the step
\* leaves the loop through the check of lines 182-186 (no further strategy
\* executed, the in-flight frame disposed), then flushes the deferred events
\* and returns true.  (Violated: cleanup() empties in place the list the
\* step iterates, so the loop may end without the check ever seeing
\* TERMINATED, and the step returns did_work.)
C32_StopMidWalkReturnsTrue ==
    [][\A w \in Workers :
          LET t == threads[w]
              u == threads'[w]
          IN  /\ (/\ t.pc = "walk"
                  /\ state[t.pipe] = "TERMINATED"
                  /\ t.pos <= Len(t.snapshot)
                  /\ u.pc # "walk")
                 => /\ u.pc = "finally"
                    /\ u.early
                    /\ u.ran = t.ran
                    /\ Truthy(t.current_data) \subseteq released'
              /\ (t.pc = "finally" /\ t.early /\ u.pc # "finally")
                 => /\ u.pc = "returned"
                    /\ Len(u.flush) = 1
                    /\ u.result = "true"]_vars

\* C33: a step() called on a pipeline whose state is not RUNNING returns
\* false at once: it invokes no strategy and no subscriber, and it leaves
\* the pipeline (state, trigger flag, frame-interrupt flag, chain,
\* frame_index, the timing anchor), the router (deferred queue included),
\* the frames and the hub as they were.
C33_StepOnNotRunningIsNoOp ==
    [][\A w \in Workers :
          LET t == threads[w]
              u == threads'[w]
          IN  (t.pc = "call" /\ u.pc # "call" /\ state[u.pipe] # "RUNNING")
              => /\ u.pc = "returned"
                 /\ u.result = "false"
                 /\ u.ran = <<>>
                 /\ u.calls = <<>>
                 /\ u.flush = <<>>
                 /\ pipeVars' = pipeVars
                 /\ routerVars' = routerVars
                 /\ frameVars' = frameVars
                 /\ hub_log' = hub_log
                 /\ cleanups' = cleanups]_vars

\* C33 witness: a step has returned false on a PAUSED CONDITIONAL pipeline
\* that had walked its chain once before; the pending trigger is still
\* pending and frame_index is still 1.
C33_Witness ==
    \E w \in Workers :
        LET t == threads[w]
        IN  /\ t.pc = "returned"
            /\ t.result = "false"
            /\ ~t.passed
            /\ state[t.pipe] = "PAUSED"
            /\ mode[t.pipe] = "CONDITIONAL"
            /\ trigger_event[t.pipe]
            /\ t.index_at_call = 1
            /\ frame_index[t.pipe] = 1

\* C34: in every state the router can be in, for every topic and priority,
\* publish() under the SILENT rule leaves the router run (callbacks invoked,
\* deferred queue, interrupt request, error raised) exactly as publish()
\* under the NORMAL rule does; and a publish a strategy makes on a SILENT
\* topic has the routing a NORMAL publish would have had from the same
\* state, and writes no publish log record.
C34_SilentRoutesLikeNormal ==
    /\ [](\A p \in Pipes, t \in Topics, pri \in EventPriority :
             PublishUnder("SILENT", p, t, pri, RouterRun(p))
                = PublishUnder("NORMAL", p, t, pri, RouterRun(p)))
    /\ [][\A w \in Workers :
            LET t == threads[w]
                u == threads'[w]
                p == t.pipe
                e == Last(u.ran)
                n == PublishUnder("NORMAL", p, e.topic, e.priority,
                                  [RouterRun(p) EXCEPT !.by = t.strategy])
            IN  (t.pc = "exec" /\ Len(u.ran) = Len(t.ran) + 1
                 /\ e.pub /\ e.rule = "SILENT")
                => /\ ~e.logged
                   /\ e.called = [k \in 1..Len(n.calls) |-> n.calls[k].handler]
                   /\ e.raised = n.raised
                   /\ deferred_queue'[p] = n.queue
                   /\ subscribers'[p] = n.subs
                   /\ frame_interrupted'[p] = (frame_interrupted[p] \/ n.interrupt)]_vars

\* C34 witness: with INFO allowed, a strategy has published at INTERRUPT on
\* a SILENT class topic with a subscriber: the callback has been invoked, the
\* frame interrupt is requested, and no publish record was written.
C34_Witness ==
    \E w \in Workers :
        LET t == threads[w]
        IN  /\ t.ran # <<>>
            /\ Last(t.ran).pub
            /\ Last(t.ran).rule = "SILENT"
            /\ Last(t.ran).topic = "Type"
            /\ Last(t.ran).priority = INTERRUPT
            /\ Last(t.ran).called = <<"h_ok">>
            /\ ~Last(t.ran).logged
            /\ log_info[t.pipe]
            /\ frame_interrupted[t.pipe]

\* C35: once the running flag is cleared, either start() is called again or
\* the worker thread ends: a thread that reaches the head of the loop with
\* the flag cleared begins no further sweep, and eventually no thread of the
\* executor is left to call step().
C35_StoppedWorkerExits ==
    /\ (~running ~> (running \/ \A w \in Workers : threads[w].pc = "unborn"))
    /\ [][\A w \in Workers :
            (threads[w].pc = "top" /\ ~running /\ threads'[w].pc # "top")
            => threads'[w].pc = "unborn"]_vars

\* C35 witness: the executor is stopped and its worker has ended after it
\* ran the one step of a SINGLE pipeline; a RUNNING pipeline is still
\* attached and is not being stepped.
C35_Witness ==
    /\ ~running
    /\ \A w \in Workers : threads[w].pc = "unborn"
    /\ \E p \in Pipes : tally[p].executed = 1 /\ state[p] = "TERMINATED"
    /\ \E q \in Pipes :
         /\ q \in Range(pipelines)
         /\ state[q] = "RUNNING"
         /\ last_time[q]
         /\ tally[q].executed = 0

\* C36: when a step whose walk ended normally or on an interrupt (not on a
\* TERMINATED check, a failure or a raise) goes through its finally block,
\* the frame it holds is not disposed when the flush begins and is live for
\* the callbacks of the flush; it is disposed when the block is over, if
\* the flush returned.
C36_FlushRunsWhileFrameLive ==
    [][\A w \in Workers :
          LET t == threads[w]
              u == threads'[w]
          IN  (/\ t.pc = "finally"
               /\ u.pc = "returned"
               /\ ~t.early
               /\ t.ran # <<>>
               /\ Last(t.ran).kind = "ok")
              => /\ Truthy(t.current_data) \cap released = {}
                 /\ Last(u.flush).live = Truthy(t.current_data)
                 /\ Last(u.flush).raised = "none"
                       => Truthy(t.current_data) \subseteq released']_vars

\* C36 witness: a step whose last strategy returned a frame has flushed a
\* deferred event to a callback while that frame was live, and the frame is
\* disposed now that the step has returned.
C36_Witness ==
    \E w \in Workers :
        LET t == threads[w]
        IN  /\ t.pc = "returned"
            /\ t.ran # <<>>
            /\ Last(t.ran).kind = "ok"
            /\ Last(t.ran).out # None
            /\ t.flush # <<>>
            /\ Last(t.flush).dispatched # <<>>
            /\ Last(t.flush).live = {Last(t.ran).out}
            /\ Last(t.ran).out \in released
            /\ \E k \in 1..Len(t.calls) : t.calls[k].priority = DEFERRED

\* C37: a thread never holds the hub lock while it invokes a callback, nor
\* when a callback it runs calls subscribe(), publish() or clear() and
\* waits for the lock; whoever holds the lock is inside a with block that
\* ends without waiting for anything, so no call on the hub waits for ever;
\* and every callback a publish has invoked was subscribed before that
\* publish took its snapshot.
C37_HubPublishIsLockFree ==
    /\ \A th \in Workers :
         /\ hub_threads[th].pc \in {"idle", "acquire", "invoke"} => hub_lock # th
         /\ \A d \in 1..Len(hub_threads[th].stack) :
              LET fr == hub_threads[th].stack[d]
              IN  /\ fr.invoked = SubSeq(fr.callbacks, 1, fr.k - 1)
                  /\ \A j \in 1..Len(fr.invoked) : fr.invoked[j].id <= fr.stamp
    /\ hub_lock # None => hub_threads[hub_lock].pc = "locked"

\* C37 witness: a publish on the class topic has invoked the one callback
\* of its snapshot, which called subscribe(); two subscriptions were
\* appended to the topic's list after the snapshot was taken, and the
\* publish, its loop over, has invoked neither.
C37_Witness ==
    \E th \in Workers :
        LET h == hub_threads[th]
        IN  /\ h.pc = "invoke"
            /\ Len(h.stack) = 1
            /\ h.stack[1].topic = "Type"
            /\ h.stack[1].k > Len(h.stack[1].callbacks)
            /\ Len(h.stack[1].invoked) = 1
            /\ h.stack[1].invoked[1].callback = "cb_sub"
            /\ h.stack[1].stamp = 1
            /\ h.op = "subscribe"
            /\ Len(hub_subscribers["Type"]) = 3
            /\ hub_next = 3

\* The chain without the element at position index (counted from 0).
RemoveAt(chain, index) ==
    SubSeq(chain, 1, index) \o SubSeq(chain, index + 2, Len(chain))

\* C38: remove_strategy_by_index(index) leaves the chain without the
\* element at that position and with the others in their order when the
\* index is in range, and leaves the chain as it is when it is not.
\* (Violated: the element is removed by value, so the first occurrence of
\* the instance found at the index goes, not the one at the index.)
C38_RemoveByIndexRemovesThatPosition ==
    [][\A p \in Pipes, index \in -1..3 :
          RemoveStrategyByIndex(p, index)
          => strategies'[p] = IF 0 <= index /\ index < Len(strategies[p])
                              THEN RemoveAt(strategies[p], index)
                              ELSE strategies[p]]_vars

\* C39: whatever the kind of the topic and the router's log policy, a
\* publish at IMMEDIATE priority on a topic that is not dropped returns
\* normally after it invoked every callback subscribed on the topic (none if
\* there is none), and a flush returns normally after it dispatched every
\* event that was queued when it began.  (Violated: for a str or Enum topic
\* the log lines of trace_dispatch and of the except clause of
\* _dispatch_now read event_type.__name__, which raises AttributeError.)
C39_DispatchWorksForEveryTopic ==
    \A w \in Workers :
        LET t == threads[w]
        IN  /\ \A k \in 1..Len(t.ran) :
                 (t.ran[k].pub /\ t.ran[k].priority = IMMEDIATE /\ t.ran[k].rule # "DROP")
                 => /\ t.ran[k].raised = "none"
                    /\ t.ran[k].called = t.ran[k].subs_at
            /\ (t.pc = "returned" /\ t.flush # <<>>)
               => /\ Last(t.flush).raised = "none"
                  /\ Last(t.flush).dispatched = Last(t.flush).before

\* C40: in every reachable state a frame whose _released flag is set holds
\* no component under any tag, so that get_component and has_component,
\* which read the dict as it is, report none.  (Violated: add_component
\* stores the component without reading the flag.)
C40_DisposedFrameIsEmpty ==
    \A f \in FrameIds :
        f \in released => \A tag \in Tags : components[f][tag] = Absent

====
